---- MODULE Spec2Model ----
(***************************************************************************)
(* pgwrapper: client-side routing in front of a primary/replica database.  *)
(* The model covers the endpoint wrappers (masterConn, replicaConn), the   *)
(* error classifier, the fallback pass (ExecuteWithFallback), the retry    *)
(* loop (ExecuteQueryWithRetry), the session handles (Master, Slave,       *)
(* SyncSlave), the scoped transaction helpers and the telemetry counters.  *)
(* The Database Client (pgx) is the environment: every call that reaches   *)
(* it draws its outcome from DbOutcomes.                                   *)
(***************************************************************************)
EXTENDS Integers, Sequences, FiniteSets, TLC

\* Bounds of the model.
MaxRetriesBound == 2
MaxCalls == 2
MaxRecords == 3
MaxSnapshots == 3
MaxWrap == 2

----------------------------------------------------------------------------
\* Errors.  An error value is its message (the pieces fmt.Errorf concatenates,
\* in order), the messages of the errors errors.Is can match in its Unwrap
\* chain, and the SQLSTATE code of the *pgconn.PgError errors.As can find in
\* that chain ("" when there is none).  NilErr is the nil error.

NilErr == [msg |-> <<>>, is |-> {}, code |-> ""]

New(m) == [msg |-> <<m>>, is |-> {<<m>>}, code |-> ""]

\* A *pgconn.PgError with the given Code.
PgError(code) ==
    [msg |-> <<"SQLSTATE " \o code>>, is |-> {<<"SQLSTATE " \o code>>}, code |-> code]

\* fmt.Errorf(prefix + "%w", e): the message is prefixed, e stays in the chain.
Errorf_w(prefix, e) ==
    [msg |-> <<prefix>> \o e.msg, is |-> {<<prefix>> \o e.msg} \cup e.is,
     code |-> e.code]

\* fmt.Errorf(p1 + "%v" + p2 + "%w", e, w): e is flattened into the text, only
\* w is wrapped.
Errorf_v_w(p1, e, p2, w) ==
    LET m == <<p1>> \o e.msg \o <<p2>> \o w.msg
    IN  [msg |-> m, is |-> {m} \cup w.is, code |-> w.code]

\* fmt.Errorf("%w" + p + "%v", w, e): w is wrapped, e is flattened into the
\* text; a nil e prints as "%!v(<nil>)".
Errorf_w_v(w, p, e) ==
    LET m == w.msg \o <<p>> \o (IF e.msg = <<>> THEN <<"%!v(<nil>)">> ELSE e.msg)
    IN  [msg |-> m, is |-> {m} \cup w.is, code |-> w.code]

ErrNoAvailableReplicas == New("no available replicas")
ErrMasterOnlyOperation == New("this operation can only be performed on the master")
ErrMaxRetriesExceeded == New("maximum number of retries exceeded")
ErrNestedTx == New("nested transactions are not supported")

\* The prefixes the wrappers put in front of a Database Client error, in the
\* English wording of the source where it has one.
MasterQueryPrefix == "error executing query on master: "
MasterBeginPrefix == "error starting transaction on master: "
MasterPingPrefix == "error pinging master: "
ReplicaQueryPrefix == "error executing query on replica: "
ReplicaPingPrefix == "error pinging replica: "
NoReplicaSucceededPrefix == "operation failed on every replica: "
AfterAttemptsPrefix(n) == "operation failed after " \o ToString(n) \o " attempts: "
ReadAfterAttemptsInfix(n) == ": read query failed after " \o ToString(n) \o " attempts: "
TxBeginPrefix == "transaction begin error: "
TxFnPrefix == "function execution error in transaction: "
TxRollbackSuffix == ", rollback error: "
TxCommitPrefix == "transaction commit error: "
CommitPrefix == "error committing transaction: "
RollbackPrefix == "error rolling back transaction: "

\* What the Database Client can answer.
TransientMessages ==
    {"context deadline exceeded", "connection refused", "connection reset by peer"}
DbErrors == {"connection refused", "context deadline exceeded", "syntax error"}
DbOutcomes == {"ok"} \cup DbErrors
\* What it answers to a call made with a cancelled context.
Canceled == "context canceled"
CtxOutcomes == DbOutcomes \cup {Canceled}
DbErr(out) == New(out)

\* errors.Is finds a connection-class error of the Database Client in err.
HasTransientCause(err) == \E m \in TransientMessages : <<m>> \in err.is

\* A variant of the classifier that looks through the wrapping.
isConnectionErrorUnwrapping(err) == err # NilErr /\ HasTransientCause(err)

\* The SQLSTATE codes of the switch in isConnectionError.
ConnectionCodes == {"08001", "08003", "08006"}

\* isConnectionError: the message must be exactly one of three texts.  pgErr,
\* the Code the switch looks at, is declared and never assigned from err, so
\* the SQLSTATE branch is never taken.
isConnectionError(err) ==
    LET pgErr == "nil"
    IN  /\ err # NilErr
        /\ \/ err.msg = <<"context deadline exceeded">>
           \/ err.msg = <<"connection refused">>
           \/ err.msg = <<"connection reset by peer">>
           \/ (pgErr # "nil" /\ pgErr \in ConnectionCodes)

----------------------------------------------------------------------------
VARIABLES
    config,       \* Config handed to NewDriver
    driver,       \* Driver fields: master, syncSlave, asyncSlave, replicaFallback, telemetry
    telemetry,    \* Telemetry fields
    pc,           \* position of the call in flight
    call,         \* the call in flight: entry point and operation
    attempt,      \* ExecuteQueryWithRetry: loop counter
    idx,          \* ExecuteWithFallback: index into connections
    lastErr,      \* ExecuteQueryWithRetry: lastErr
    result,       \* the closure's result variable: role that produced it, or "none"
    ret,          \* the error returned to the caller
    tx,           \* ExecuteInTransaction: the local tx variable, "nil" or "set"
    trace,        \* events of the call in flight
    calls,        \* calls started so far
    telAtCall,    \* the telemetry fields when the call in flight started
    sleepsTotal,  \* time.Sleep calls made by the retry loop so far
    ctx,          \* the caller's context of the call in flight: "live" or "cancelled"
    telProc,      \* per goroutine using the Telemetry: the method it is inside of
    metrics,      \* the maps GetMetrics returned, in the order it returned them
    clsIn,        \* the error last handed to isConnectionError on its own
    clsOut,       \* what isConnectionError returned for it
    held,         \* the Conn last returned by Master(), SyncSlave() or Slave()
    closes,       \* per role: Close calls made on its physical connection
    lateUse,      \* roles whose connection was used after a Close on it
    txState,      \* the Database Client's transaction behind the Tx handle
    txPrev,       \* txState when the last call on the Tx handle started
    mu,           \* Telemetry.mu: the goroutine holding the write lock, and
                  \* the goroutines holding the read lock
    loc,          \* per goroutine: where it is in a Telemetry method that
                  \* holds mu, and its locals
    recCalls,     \* per Record* method: the calls made so far
    opIn,         \* the chain entry and answer last handed to a call's closure
    opOut,        \* what the closure, the pass and the loop made of it
    rows,         \* the Rows / Row last asked of an endpoint: where its
                  \* Query / QueryRow call is, and the context it is bound to
    nd            \* a call of NewDriver: its position, the connections it
                  \* has open, and what it returned

vars == <<config, driver, telemetry, pc, call, attempt, idx, lastErr, result,
          ret, tx, trace, calls, telAtCall, sleepsTotal, ctx, telProc, metrics,
          clsIn, clsOut, held, closes, lateUse, txState, txPrev, mu, loc,
          recCalls,
          opIn, opOut,
          rows, nd>>

\* The variables of the connection lifecycle and of the Tx handle.
lifeVars == <<held, closes, lateUse>>
txhVars == <<txState, txPrev>>

\* The variables of the Telemetry goroutines, of the classifier on its own, of
\* the connection lifecycle and of the Tx handle.
auxVars == <<telProc, metrics, clsIn, clsOut, held, closes, lateUse, txState,
             txPrev, mu, loc, recCalls,
             opIn, opOut,
             rows, nd>>

----------------------------------------------------------------------------
\* Telemetry.  Every Record* method returns at once when the sink is disabled
\* and otherwise increments its counter under the mutex.

NewTelemetry ==
    [enabled |-> TRUE, totalQueries |-> 0, totalErrors |-> 0,
     totalRetries |-> 0, queryDuration |-> 0, connectionErrors |-> 0]

\* time.Since(start) of a call, in ticks, where the call's duration is not
\* an input of the model.
Elapsed == 1

RecordQueryFor(t, duration) ==
    IF ~t.enabled THEN t
    ELSE [t EXCEPT !.totalQueries = @ + 1, !.queryDuration = @ + duration]

RecordQuery(t) == RecordQueryFor(t, Elapsed)

RecordError(t) ==
    IF ~t.enabled THEN t ELSE [t EXCEPT !.totalErrors = @ + 1]

RecordRetry(t) ==
    IF ~t.enabled THEN t ELSE [t EXCEPT !.totalRetries = @ + 1]

RecordConnectionError(t) ==
    IF ~t.enabled THEN t ELSE [t EXCEPT !.connectionErrors = @ + 1]

\* The guards the callers put around the sink: "telemetry != nil" and, for the
\* deferred duration record, "telemetry != nil && telemetry.IsEnabled()".
DeferRecordQuery(t) ==
    IF driver.telemetry # "nil" /\ t.enabled THEN RecordQuery(t) ELSE t

OnError(t) ==
    IF driver.telemetry # "nil" THEN RecordError(t) ELSE t

OnPingError(t) ==
    IF driver.telemetry # "nil" THEN RecordConnectionError(t) ELSE t

OnRetry(t) ==
    IF driver.telemetry # "nil" THEN RecordRetry(t) ELSE t

----------------------------------------------------------------------------
\* Endpoints.  A call on an endpoint yields: the error it returns, whether the
\* Database Client was invoked (db), whether the call panicked on a nil
\* *pgx.Conn, and the telemetry after it.  out is the Database Client's answer
\* and matters only when db is TRUE.

Outcome(e, reached, t) == [err |-> e, db |-> reached, panic |-> FALSE, tel |-> t]
NilDeref(t) == [err |-> NilErr, db |-> FALSE, panic |-> TRUE, tel |-> t]

masterConnCall(op, out, t) ==
    CASE op \in {"Exec", "Query"} ->
           IF out = "ok" THEN Outcome(NilErr, TRUE, DeferRecordQuery(t))
           ELSE Outcome(Errorf_w(MasterQueryPrefix, DbErr(out)), TRUE,
                        DeferRecordQuery(OnError(t)))
      [] op = "QueryRow" ->
           \* QueryRow followed by Scan on the row: Scan hands back the
           \* Database Client's error as it is.
           Outcome(IF out = "ok" THEN NilErr ELSE DbErr(out), TRUE,
                   DeferRecordQuery(t))
      [] op \in {"Begin", "BeginTx"} ->
           IF out = "ok" THEN Outcome(NilErr, TRUE, DeferRecordQuery(t))
           ELSE Outcome(Errorf_w(MasterBeginPrefix, DbErr(out)), TRUE,
                        DeferRecordQuery(OnError(t)))
      [] op = "Ping" ->
           IF out = "ok" THEN Outcome(NilErr, TRUE, t)
           ELSE Outcome(Errorf_w(MasterPingPrefix, DbErr(out)), TRUE,
                        OnPingError(t))

\* A replica endpoint that forwards writes and transaction starts.
replicaConnForwarding(op, conn, out, t) ==
    IF conn = "nil" THEN NilDeref(t)
    ELSE IF out = "ok" THEN Outcome(NilErr, TRUE, DeferRecordQuery(t))
    ELSE Outcome(Errorf_w(ReplicaQueryPrefix, DbErr(out)), TRUE,
                 DeferRecordQuery(OnError(t)))

replicaConnCall(op, conn, out, t) ==
    CASE op = "Exec" -> Outcome(ErrMasterOnlyOperation, FALSE, t)
      [] op \in {"Begin", "BeginTx"} ->
           Outcome(ErrMasterOnlyOperation, FALSE, OnError(t))
      [] op = "Query" ->
           IF conn = "nil" THEN NilDeref(DeferRecordQuery(t))
           ELSE IF out = "ok" THEN Outcome(NilErr, TRUE, DeferRecordQuery(t))
           ELSE Outcome(Errorf_w(ReplicaQueryPrefix, DbErr(out)), TRUE,
                        DeferRecordQuery(OnError(t)))
      [] op = "QueryRow" ->
           IF conn = "nil" THEN NilDeref(DeferRecordQuery(t))
           ELSE Outcome(IF out = "ok" THEN NilErr ELSE DbErr(out), TRUE,
                        DeferRecordQuery(t))
      [] op = "Ping" ->
           IF conn = "nil" THEN NilDeref(t)
           ELSE IF out = "ok" THEN Outcome(NilErr, TRUE, t)
           ELSE Outcome(Errorf_w(ReplicaPingPrefix, DbErr(out)), TRUE,
                        OnPingError(t))

\* A chain that tries the primary before the replicas.
ConnectionsPrimaryFirst ==
    << [wrapper |-> "masterConn", role |-> "master", conn |-> driver.master],
       [wrapper |-> "replicaConn", role |-> "async", conn |-> driver.asyncSlave],
       [wrapper |-> "replicaConn", role |-> "sync", conn |-> driver.syncSlave] >>

\* The Conn values a fallback pass builds: a wrapper struct around the
\* driver's connection for the role.
Connections ==
    << [wrapper |-> "replicaConn", role |-> "async", conn |-> driver.asyncSlave],
       [wrapper |-> "replicaConn", role |-> "sync", conn |-> driver.syncSlave],
       [wrapper |-> "masterConn", role |-> "master", conn |-> driver.master] >>

ConnCall(c, op, out, t) ==
    IF c.wrapper = "masterConn" THEN masterConnCall(op, out, t)
    ELSE replicaConnCall(op, c.conn, out, t)

----------------------------------------------------------------------------
\* Events of the call in flight, in the order they happen: the start of a
\* fallback pass, an invocation of the operation on an endpoint, a sleep of the
\* retry loop, a step of a scoped transaction.

Event(kind, role, op, reached, out, e) ==
    [t |-> kind, role |-> role, op |-> op, db |-> reached, out |-> out, err |-> e]

PassEvent == Event("pass", "-", "-", FALSE, "-", NilErr)
SleepEvent == Event("sleep", "-", "-", FALSE, "-", NilErr)
CancelEvent == Event("cancel", "-", "-", FALSE, "-", NilErr)
PassEndEvent(e) == Event("passEnd", "-", "-", FALSE, "-", e)

Invocations(tr) == SelectSeq(tr, LAMBDA e : e.t = "invoke")
Passes(tr) == Len(SelectSeq(tr, LAMBDA e : e.t = "pass"))
Sleeps(tr) == Len(SelectSeq(tr, LAMBDA e : e.t = "sleep"))

----------------------------------------------------------------------------
\* ExecuteWithFallback.

\* "connInfo.conn == nil": the interface value holds a pointer to a wrapper
\* struct, which is never nil whatever the wrapped connection is.
IsNilConn(c) == c.wrapper = "nil"

\* The first entry at or after from that the loop does not skip; 0 when the
\* loop runs off the end.
NextCandidate(from) ==
    LET live == {i \in from..Len(Connections) : ~IsNilConn(Connections[i])}
    IN  IF live = {} THEN 0 ELSE CHOOSE i \in live : \A j \in live : i <= j

\* A pass that goes to the primary when fallback is disabled and there is no
\* asynchronous replica.
PassStartFallingBackToPrimary ==
    IF ~driver.replicaFallback
    THEN IF driver.asyncSlave # "nil"
         THEN [kind |-> "invoke", idx |-> 1, err |-> NilErr]
         ELSE [kind |-> "invoke", idx |-> 3, err |-> NilErr]
    ELSE [kind |-> "invoke", idx |-> 1, err |-> NilErr]

\* A pass that starts behind the async replica once it has failed, in this
\* call or in the one before.
PassStartSkippingFailed ==
    IF ~driver.replicaFallback
    THEN IF driver.asyncSlave # "nil"
         THEN [kind |-> "invoke", idx |-> 1, err |-> NilErr]
         ELSE [kind |-> "return", idx |-> 0, err |-> ErrNoAvailableReplicas]
    ELSE [kind |-> "invoke",
          idx |-> IF \E k \in 1..Len(trace) :
                        /\ trace[k].t = "invoke"
                        /\ trace[k].role = "async"
                        /\ trace[k].err # NilErr
                  THEN 2 ELSE 1,
          err |-> NilErr]

\* Entry of a pass: the endpoint to invoke first, or the error the pass
\* returns without invoking any.
PassStart ==
    IF ~driver.replicaFallback
    THEN IF driver.asyncSlave # "nil"
         THEN [kind |-> "invoke", idx |-> 1, err |-> NilErr]
         ELSE [kind |-> "return", idx |-> 0, err |-> ErrNoAvailableReplicas]
    ELSE IF NextCandidate(1) # 0
         THEN [kind |-> "invoke", idx |-> NextCandidate(1), err |-> NilErr]
         ELSE [kind |-> "return", idx |-> 0, err |-> ErrNoAvailableReplicas]

\* A pass that moves on to the next endpoint after any failure.
AfterInvokeAlwaysContinuing(i, err, t) ==
    IF err = NilErr \/ NextCandidate(i + 1) = 0
    THEN [kind |-> "return", idx |-> 0, err |-> err, tel |-> t]
    ELSE [kind |-> "invoke", idx |-> NextCandidate(i + 1), err |-> NilErr,
          tel |-> OnError(t)]

\* A pass that walks the chain whatever the fallback flag says.
AfterInvokeIgnoringFlag(i, err, t) ==
    IF err = NilErr
    THEN [kind |-> "return", idx |-> 0, err |-> NilErr, tel |-> t]
    ELSE IF ~isConnectionError(err)
    THEN [kind |-> "return", idx |-> 0, err |-> err, tel |-> OnError(t)]
    ELSE IF NextCandidate(i + 1) # 0
    THEN [kind |-> "invoke", idx |-> NextCandidate(i + 1), err |-> NilErr,
          tel |-> OnError(t)]
    ELSE [kind |-> "return", idx |-> 0,
          err |-> Errorf_w(NoReplicaSucceededPrefix, err), tel |-> OnError(t)]

\* A pass that goes on to the next entry after a success.
AfterInvokeContinuingPastSuccess(i, err, t) ==
    IF NextCandidate(i + 1) # 0 /\ driver.replicaFallback
    THEN [kind |-> "invoke", idx |-> NextCandidate(i + 1), err |-> NilErr, tel |-> t]
    ELSE [kind |-> "return", idx |-> 0, err |-> err, tel |-> t]

\* A pass that leaves the counting of errors to the endpoints.
AfterInvokeNotRecording(i, err, t) ==
    IF ~driver.replicaFallback \/ err = NilErr \/ ~isConnectionError(err)
    THEN [kind |-> "return", idx |-> 0, err |-> err, tel |-> t]
    ELSE IF NextCandidate(i + 1) # 0
    THEN [kind |-> "invoke", idx |-> NextCandidate(i + 1), err |-> NilErr, tel |-> t]
    ELSE [kind |-> "return", idx |-> 0,
          err |-> Errorf_w(NoReplicaSucceededPrefix, err), tel |-> t]

\* What a pass does once the operation on entry i returned err: return to the
\* retry loop, or invoke the next entry.
AfterInvoke(i, err, t) ==
    IF ~driver.replicaFallback
    THEN [kind |-> "return", idx |-> 0, err |-> err, tel |-> t]
    ELSE IF err = NilErr
    THEN [kind |-> "return", idx |-> 0, err |-> NilErr, tel |-> t]
    ELSE IF ~isConnectionError(err)
    THEN [kind |-> "return", idx |-> 0, err |-> err, tel |-> OnError(t)]
    ELSE IF NextCandidate(i + 1) # 0
    THEN [kind |-> "invoke", idx |-> NextCandidate(i + 1), err |-> NilErr,
          tel |-> OnError(t)]
    ELSE [kind |-> "return", idx |-> 0,
          err |-> Errorf_w(NoReplicaSucceededPrefix, err), tel |-> OnError(t)]

----------------------------------------------------------------------------
\* ExecuteQueryWithRetry.

\* A loop that returns the bare ErrMaxRetriesExceeded whenever its attempts are
\* used up.
ExhaustedErrorBare(entry, err) == ErrMaxRetriesExceeded

\* The error a loop returns once its attempts are used up: ExecuteQueryWithRetry
\* wraps lastErr, ExecuteReadQueryWithRetry wraps ErrMaxRetriesExceeded and
\* prints err after it.
ExhaustedError(entry, err) ==
    IF entry = "ExecuteReadQueryWithRetry"
    THEN Errorf_w_v(ErrMaxRetriesExceeded,
                    ReadAfterAttemptsInfix(config.MaxRetries + 1), err)
    ELSE IF err # NilErr
    THEN Errorf_w(AfterAttemptsPrefix(config.MaxRetries + 1), err)
    ELSE ErrMaxRetriesExceeded

\* A loop that sleeps after its last attempt too.
AfterPassStepSleepingAfterLast(err, a, t) ==
    IF err = NilErr
    THEN [kind |-> "return", err |-> NilErr, tel |-> t]
    ELSE IF ~isConnectionError(err)
    THEN [kind |-> "return", err |-> err, tel |-> t]
    ELSE IF a <= config.MaxRetries
    THEN [kind |-> "sleep", err |-> err, tel |-> OnRetry(t)]
    ELSE [kind |-> "return", err |-> ExhaustedError(call'.entry, err),
          tel |-> OnRetry(t)]

\* A loop that reports success once its attempts are used up.
AfterPassStepSwallowing(err, a, t) ==
    IF err = NilErr \/ (isConnectionError(err) /\ a >= config.MaxRetries)
    THEN [kind |-> "return", err |-> NilErr, tel |-> t]
    ELSE IF ~isConnectionError(err)
    THEN [kind |-> "return", err |-> err, tel |-> t]
    ELSE [kind |-> "sleep", err |-> err, tel |-> OnRetry(t)]

\* What the loop body does once the pass of attempt a returned err: return to
\* the caller, or sleep before the next attempt.
AfterPassStep(err, a, t) ==
    IF err = NilErr
    THEN [kind |-> "return", err |-> NilErr, tel |-> t]
    ELSE IF ~isConnectionError(err)
    THEN [kind |-> "return", err |-> err, tel |-> t]
    ELSE IF a < config.MaxRetries
    THEN [kind |-> "sleep", err |-> err, tel |-> OnRetry(t)]
    ELSE [kind |-> "return",
          err |-> ExhaustedError(call'.entry, err),
          tel |-> OnRetry(t)]

Return(e, a, le, res, tr, t) ==
    /\ pc' = "done"
    /\ ret' = e
    /\ attempt' = a
    /\ idx' = 0
    /\ lastErr' = le
    /\ result' = res
    /\ trace' = tr
    /\ telemetry' = t

AfterPass(err, a, le, res, tr0, t) ==
    LET d == AfterPassStep(err, a, t)
        tr == Append(tr0, PassEndEvent(err))
    IN  IF d.kind = "sleep"
        THEN /\ pc' = "sleep"
             /\ ret' = NilErr
             /\ attempt' = a
             /\ idx' = 0
             /\ lastErr' = err
             /\ result' = res
             /\ trace' = tr
             /\ telemetry' = d.tel
        ELSE Return(d.err, a, IF isConnectionError(err) THEN err ELSE le,
                    res, tr, d.tel)

\* rm.ExecuteWithFallback(ctx, operation) called by attempt a.
BeginPass(a, le, res, tr, t) ==
    LET p == PassStart
        tr2 == Append(tr, PassEvent)
    IN  IF p.kind = "invoke"
        THEN /\ pc' = "invoke"
             /\ ret' = NilErr
             /\ attempt' = a
             /\ idx' = p.idx
             /\ lastErr' = le
             /\ result' = res
             /\ trace' = tr2
             /\ telemetry' = t
        ELSE AfterPass(p.err, a, le, res, tr2, t)

EngineOps == {"Exec", "Query", "QueryRow", "Ping"}
Entries == {"Slave", "SyncSlave", "executeWithRetry", "ExecuteReadQueryWithRetry"}

\* A read closure that runs Query on whatever entry it is given.
OperationForwarding(entry, c, op, out, t) == ConnCall(c, op, out, t)

\* The closure a call hands to the pass: the method of the call on the Conn it
\* is given; ExecuteReadQueryWithFallback's closure runs Query on a replica and
\* refuses the primary.
Operation(entry, c, op, out, t) ==
    IF entry = "ExecuteReadQueryWithRetry" /\ c.wrapper = "masterConn"
    THEN Outcome(ErrMasterOnlyOperation, FALSE, t)
    ELSE ConnCall(c, op, out, t)

\* The closure of a call on its own: it is handed entry i of the chain during
\* attempt a, the Database Client answers out, and the pass and the loop
\* decide on its error.
ApplyOperation(entry, i, op, out, a) ==
    /\ entry = "ExecuteReadQueryWithRetry" => op = "Query"
    /\ a <= config.MaxRetries
    /\ LET r == Operation(entry, Connections[i], op, out, telemetry)
           p == AfterInvoke(i, r.err, r.tel)
       IN  /\ r.db \/ out = "ok"
           /\ ~r.panic
           /\ call' = [entry |-> entry, op |-> op]
           /\ opIn' = [entry |-> entry, idx |-> i, op |-> op, out |-> out,
                       attempt |-> a]
           /\ opOut' = [r |-> r, pass |-> p,
                        loop |-> IF p.kind = "return"
                                 THEN AfterPassStep(p.err, a, p.tel)
                                 ELSE [kind |-> "-", err |-> NilErr, tel |-> p.tel]]
    /\ UNCHANGED <<config, driver, telemetry, pc, attempt, idx, lastErr,
                   result, ret, tx, trace, calls, telAtCall, sleepsTotal, ctx,
                   telProc, metrics, clsIn, clsOut, held, closes, lateUse,
                   txState, txPrev, mu, loc, recCalls, rows, nd>>

\* Slave() and SyncSlave() return nil when their replica is not configured.
HandleExists(entry) ==
    CASE entry = "Slave" -> driver.asyncSlave # "nil"
      [] entry = "SyncSlave" -> driver.syncSlave # "nil"
      [] OTHER -> TRUE

\* A call enters ExecuteQueryWithRetry: retryableConn.Exec/Query/Ping,
\* retryableRow.Scan, or executeWithRetry with a closure running op; or it
\* enters ExecuteReadQueryWithRetry, the same loop around a Query.
Call(entry, op) ==
    /\ pc \in {"idle", "done"}
    /\ calls < MaxCalls
    /\ HandleExists(entry)
    /\ entry = "ExecuteReadQueryWithRetry" => op = "Query"
    /\ calls' = calls + 1
    /\ call' = [entry |-> entry, op |-> op]
    /\ tx' = "nil"
    /\ telAtCall' = telemetry
    /\ ctx' = "live"
    /\ IF 0 <= config.MaxRetries
       THEN BeginPass(0, NilErr, "none", <<>>, telemetry)
       ELSE Return(ExhaustedError(entry, NilErr), 0, NilErr, "none", <<>>,
                   telemetry)
    /\ UNCHANGED <<config, driver, sleepsTotal>>
    /\ UNCHANGED auxVars

\* operation(connInfo.conn) inside a pass, and what the pass and the retry
\* loop do with its error.
Invoke(out) ==
    /\ pc = "invoke"
    /\ UNCHANGED <<config, driver, call, tx, calls, telAtCall, sleepsTotal, ctx>>
    /\ LET c == Connections[idx]
           r == Operation(call.entry, c, call.op, out, telemetry)
           ev == Event("invoke", c.role, call.op, r.db,
                       IF r.db THEN out ELSE "-", r.err)
           tr == Append(trace, ev)
           res == IF r.err = NilErr /\ ~r.panic THEN c.role ELSE "none"
           d == AfterInvoke(idx, r.err, r.tel)
       IN  /\ r.db \/ out = "ok"
           /\ r.db => (out = Canceled <=> ctx = "cancelled")
           /\ IF r.panic
              THEN /\ pc' = "panicked"
                   /\ trace' = tr
                   /\ telemetry' = r.tel
                   /\ result' = "none"
                   /\ UNCHANGED <<ret, attempt, idx, lastErr>>
              ELSE IF d.kind = "invoke"
              THEN /\ pc' = "invoke"
                   /\ idx' = d.idx
                   /\ trace' = tr
                   /\ telemetry' = d.tel
                   /\ result' = res
                   /\ UNCHANGED <<ret, attempt, lastErr>>
              ELSE AfterPass(d.err, attempt, lastErr, res, tr, d.tel)
    /\ UNCHANGED auxVars

\* time.Sleep(RetryDelay), then the next attempt.
Sleep ==
    /\ pc = "sleep"
    /\ sleepsTotal' = sleepsTotal + 1
    /\ UNCHANGED <<config, driver, call, tx, calls, telAtCall, ctx>>
    /\ BeginPass(attempt + 1, lastErr, result, Append(trace, SleepEvent),
                 telemetry)
    /\ UNCHANGED auxVars

\* The caller cancels ctx while the loop is inside time.Sleep, which does not
\* look at ctx.
Cancel ==
    /\ pc = "sleep"
    /\ ctx = "live"
    /\ ctx' = "cancelled"
    /\ trace' = Append(trace, CancelEvent)
    /\ UNCHANGED <<config, driver, telemetry, pc, call, attempt, idx, lastErr,
                   result, ret, tx, calls, telAtCall, sleepsTotal>>
    /\ UNCHANGED auxVars

----------------------------------------------------------------------------
\* A Master() that hands out the replica-first chain entry.
DirectConnThroughChain(handle) == Connections[1]

\* Calls that bypass the retry loop: every method of the Master() handle, and
\* Begin/BeginTx of a Slave()/SyncSlave() handle, which retryableConn hands to
\* its replicaConn.

MasterOps == {"Exec", "Query", "QueryRow", "Begin", "BeginTx", "Ping"}

DirectConn(handle) ==
    CASE handle = "Master" -> Connections[3]
      [] handle = "SyncSlave" -> Connections[2]
      [] handle = "Slave" -> Connections[1]

DirectCall(handle, op, out) ==
    /\ pc \in {"idle", "done"}
    /\ calls < MaxCalls
    /\ HandleExists(handle)
    /\ handle = "Master" \/ op \in {"Begin", "BeginTx"}
    /\ LET c == DirectConn(handle)
           r == ConnCall(c, op, out, telemetry)
       IN  /\ r.db \/ out = "ok"
           /\ trace' = << Event("invoke", c.role, op, r.db,
                                IF r.db THEN out ELSE "-", r.err) >>
           /\ telemetry' = r.tel
           /\ ret' = r.err
           /\ result' = IF r.err = NilErr THEN c.role ELSE "none"
    /\ pc' = "done"
    /\ calls' = calls + 1
    /\ call' = [entry |-> handle, op |-> op]
    /\ attempt' = 0
    /\ idx' = 0
    /\ lastErr' = NilErr
    /\ tx' = "nil"
    /\ telAtCall' = telemetry
    /\ ctx' = "live"
    /\ UNCHANGED <<config, driver, sleepsTotal>>
    /\ UNCHANGED auxVars

----------------------------------------------------------------------------
\* Driver.BeginTx / Driver.Begin, txWrapper.Commit / Rollback and the scoped
\* helpers ExecuteInTransaction / ExecuteInTransactionDefault.

TxHelpers == {"ExecuteInTransaction", "ExecuteInTransactionDefault"}

\* What the function handed to the helper may return.
FnResults ==
    {NilErr, New("constraint violation"),
     Errorf_w("error executing query in transaction: ", DbErr("connection refused"))}

\* A Driver.Begin that hides the failure of the primary's begin.
DriverBeginSwallowing(out, t) == Outcome(NilErr, TRUE, DeferRecordQuery(t))

DriverBegin(out, t) ==
    IF out = "ok" THEN Outcome(NilErr, TRUE, DeferRecordQuery(t))
    ELSE Outcome(Errorf_w(MasterBeginPrefix, DbErr(out)), TRUE,
                 DeferRecordQuery(OnError(t)))

\* Driver.Begin / Driver.BeginTx called by the application: d.master.Begin,
\* once, and the wrapped error or the transaction handle.
DriverBeginCall(op, out) ==
    /\ pc \in {"idle", "done"}
    /\ calls < MaxCalls
    /\ LET r == DriverBegin(out, telemetry)
       IN  /\ trace' = << Event("invoke", "master", op, r.db, out, r.err) >>
           /\ telemetry' = r.tel
           /\ ret' = r.err
           /\ result' = IF r.err = NilErr THEN "master" ELSE "none"
    /\ pc' = "done"
    /\ calls' = calls + 1
    /\ call' = [entry |-> "Driver", op |-> op]
    /\ attempt' = 0
    /\ idx' = 0
    /\ lastErr' = NilErr
    /\ tx' = "nil"
    /\ telAtCall' = telemetry
    /\ ctx' = "live"
    /\ UNCHANGED <<config, driver, sleepsTotal>>
    /\ UNCHANGED auxVars

\* A Commit that reports success whatever the Database Client answered.
txWrapperCommitSwallowing(out, t) == Outcome(NilErr, TRUE, t)

txWrapperCommit(out, t) ==
    IF out = "ok" THEN Outcome(NilErr, TRUE, t)
    ELSE Outcome(Errorf_w(CommitPrefix, DbErr(out)), TRUE, OnError(t))

txWrapperRollback(out, t) ==
    IF out = "ok" THEN Outcome(NilErr, TRUE, t)
    ELSE Outcome(Errorf_w(RollbackPrefix, DbErr(out)), TRUE, OnError(t))

\* A helper that reports the rollback failure in place of the function's error.
FnFailureResultSubstituting(e, rbErr) ==
    IF rbErr # NilErr THEN rbErr ELSE e

\* The error the helper returns when fn returned e and Rollback returned rbErr.
FnFailureResult(e, rbErr) ==
    IF rbErr # NilErr
    THEN Errorf_v_w(TxFnPrefix, e, TxRollbackSuffix, rbErr)
    ELSE e

\* tx, err := d.BeginTx(ctx, txOptions) and the early return on its error.
TxStart(helper, out) ==
    /\ pc \in {"idle", "done"}
    /\ calls < MaxCalls
    /\ LET r == DriverBegin(out, telemetry)
           op == IF helper = "ExecuteInTransaction" THEN "BeginTx" ELSE "Begin"
       IN  /\ trace' = << Event("begin", "master", op, TRUE, out, r.err) >>
           /\ telemetry' = r.tel
           /\ IF r.err # NilErr
              THEN /\ pc' = "done"
                   /\ ret' = Errorf_w(TxBeginPrefix, r.err)
                   /\ tx' = "nil"
              ELSE /\ pc' = "txFn"
                   /\ ret' = NilErr
                   /\ tx' = "set"
    /\ calls' = calls + 1
    /\ call' = [entry |-> helper, op |-> "fn"]
    /\ attempt' = 0
    /\ idx' = 0
    /\ lastErr' = NilErr
    /\ result' = "none"
    /\ telAtCall' = telemetry
    /\ ctx' = "live"
    /\ UNCHANGED <<config, driver, sleepsTotal>>
    /\ UNCHANGED auxVars

\* err = fn(tx)
TxFn(e) ==
    /\ pc = "txFn"
    /\ trace' = Append(trace, Event("fn", "master", "fn", FALSE, "-", e))
    /\ lastErr' = e
    /\ pc' = IF e # NilErr THEN "txRollback" ELSE "txCommit"
    /\ UNCHANGED <<config, driver, telemetry, call, attempt, idx, result, ret,
                   tx, calls, telAtCall, sleepsTotal, ctx>>
    /\ UNCHANGED auxVars

\* rbErr := tx.Rollback(ctx) on the error path, and the return that follows.
TxRollback(out) ==
    /\ pc = "txRollback"
    /\ LET r == txWrapperRollback(out, telemetry)
       IN  /\ trace' = Append(trace,
                   Event("rollback", "master", "Rollback", TRUE, out, r.err))
           /\ telemetry' = r.tel
           /\ ret' = FnFailureResult(lastErr, r.err)
    /\ pc' = "txDefer"
    /\ UNCHANGED <<config, driver, call, attempt, idx, lastErr, result, tx,
                   calls, telAtCall, sleepsTotal, ctx>>
    /\ UNCHANGED auxVars

\* err = tx.Commit(ctx); on success tx = nil.
TxCommit(out) ==
    /\ pc = "txCommit"
    /\ LET r == txWrapperCommit(out, telemetry)
       IN  /\ trace' = Append(trace,
                   Event("commit", "master", "Commit", TRUE, out, r.err))
           /\ telemetry' = r.tel
           /\ ret' = IF r.err # NilErr THEN Errorf_w(TxCommitPrefix, r.err)
                     ELSE NilErr
           /\ tx' = IF r.err # NilErr THEN tx ELSE "nil"
    /\ pc' = "txDefer"
    /\ UNCHANGED <<config, driver, call, attempt, idx, lastErr, result,
                   calls, telAtCall, sleepsTotal, ctx>>
    /\ UNCHANGED auxVars

\* The deferred function: if tx != nil { tx.Rollback(ctx) }, its error dropped.
TxDefer(out) ==
    /\ pc = "txDefer"
    /\ IF tx # "nil"
       THEN LET r == txWrapperRollback(out, telemetry)
            IN  /\ trace' = Append(trace,
                        Event("rollback", "master", "Rollback", TRUE, out, r.err))
                /\ telemetry' = r.tel
       ELSE /\ out = "ok"
            /\ UNCHANGED <<trace, telemetry>>
    /\ pc' = "done"
    /\ UNCHANGED <<config, driver, call, attempt, idx, lastErr, result, ret,
                   tx, calls, telAtCall, sleepsTotal, ctx>>
    /\ UNCHANGED auxVars

----------------------------------------------------------------------------
\* Telemetry under concurrent use.  Every method body runs under t.mu, so each
\* critical section is one step; a Record* method is two of them, IsEnabled()
\* under the read lock and then the increment under the write lock.

\* The roles of the physical connections and the nil Conn.
Roles == {"master", "sync", "async"}
NilHandle == [wrapper |-> "nil", role |-> "-"]

\* The goroutines that use the Telemetry of one driver at the same time.
Goroutines == {"g1", "g2"}

\* Record* method -> the counter it increments.
RecordMethods ==
    [RecordQuery |-> "totalQueries", RecordError |-> "totalErrors",
     RecordRetry |-> "totalRetries", RecordConnectionError |-> "connectionErrors"]

IsEnabled(t) == t.enabled

\* A Disable that also clears the counters.
DisableResetting(t) == [NewTelemetry EXCEPT !.enabled = FALSE]

Disable(t) == [t EXCEPT !.enabled = FALSE]

Enable(t) == [t EXCEPT !.enabled = TRUE]

\* t.totalQueries++ and its siblings, past the IsEnabled() test.
Increment(t, method) ==
    [t EXCEPT ![RecordMethods[method]] = @ + 1,
              !.queryDuration = IF method = "RecordQuery" THEN @ + Elapsed ELSE @]

\* avgDuration of GetMetrics: t.queryDuration / time.Duration(t.totalQueries),
\* an integer division, and 0 without queries.
AvgDuration(t) ==
    IF t.totalQueries > 0 THEN t.queryDuration \div t.totalQueries ELSE 0

\* The map GetMetrics builds from the fields, given the avgDuration computed
\* before it.
MetricsMap(t, avgDuration) ==
    [total_queries |-> t.totalQueries, total_errors |-> t.totalErrors,
     total_retries |-> t.totalRetries, average_duration |-> avgDuration,
     connection_errors |-> t.connectionErrors, enabled |-> t.enabled]

GetMetrics(t) == MetricsMap(t, AvgDuration(t))

\* Record* calls started so far: those that incremented and those in between
\* their two critical sections.
RecordsStarted ==
    telemetry.totalQueries + telemetry.totalErrors + telemetry.totalRetries
      + telemetry.connectionErrors
      + Cardinality({g \in Goroutines : telProc[g] # "idle"})

TelUnchanged ==
    UNCHANGED <<config, driver, pc, call, attempt, idx, lastErr, result, ret,
                tx, trace, calls, telAtCall, sleepsTotal, ctx, clsIn, clsOut,
                held, closes, lateUse, txState, txPrev, mu, loc, recCalls,
                opIn, opOut,
                rows, nd>>

\* if !t.IsEnabled() { return }
TelRecordEnter(g, method) ==
    /\ driver.telemetry # "nil"
    /\ telProc[g] = "idle"
    /\ RecordsStarted < MaxRecords
    /\ telProc' = [telProc EXCEPT ![g] = IF IsEnabled(telemetry) THEN method ELSE "idle"]
    /\ UNCHANGED <<telemetry, metrics>>
    /\ TelUnchanged

\* t.mu.Lock(); counter++; t.mu.Unlock()
TelRecordIncrement(g) ==
    /\ telProc[g] # "idle"
    /\ telemetry' = Increment(telemetry, telProc[g])
    /\ telProc' = [telProc EXCEPT ![g] = "idle"]
    /\ UNCHANGED metrics
    /\ TelUnchanged

TelDisable ==
    /\ driver.telemetry # "nil"
    /\ telemetry' = Disable(telemetry)
    /\ UNCHANGED <<telProc, metrics>>
    /\ TelUnchanged

TelEnable ==
    /\ driver.telemetry # "nil"
    /\ telemetry' = Enable(telemetry)
    /\ UNCHANGED <<telProc, metrics>>
    /\ TelUnchanged

TelGetMetrics ==
    /\ driver.telemetry # "nil"
    /\ Len(metrics) < MaxSnapshots
    /\ metrics' = Append(metrics, GetMetrics(telemetry))
    /\ UNCHANGED <<telemetry, telProc>>
    /\ TelUnchanged

----------------------------------------------------------------------------
\* Telemetry with its lock shown: t.mu is a sync.RWMutex, Lock waits for every
\* holder to leave, RLock waits for the writer to leave.  A Record* method is
\* IsEnabled(), then Lock, the read and the write of counter++, and the
\* deferred Unlock; GetMetrics is RLock, avgDuration, the map, and the deferred
\* RUnlock.

MaxMuRecords == 3
MaxMuSnapshots == 2

\* The durations RecordQuery is called with.
Durations == {1, 3}

Unlocked == [w |-> "none", r |-> {}]
Idle == [at |-> "idle", method |-> "-", val |-> 0, d |-> 0]

\* A write lock that does not wait for the readers.
CanLockIgnoringReaders(m) == m.w = "none"

\* A write lock that waits for nobody.
CanLockAlways(m) == TRUE

CanLock(m) == m.w = "none" /\ m.r = {}

CanRLock(m) == m.w = "none"

\* Record* calls that did not return yet, of one method.
InFlight(method) ==
    Cardinality({g \in Goroutines : loc[g].at # "idle" /\ loc[g].method = method})

RecCallsTotal ==
    recCalls["RecordQuery"] + recCalls["RecordError"] + recCalls["RecordRetry"]
      + recCalls["RecordConnectionError"]

MuUnchanged ==
    UNCHANGED <<config, driver, pc, call, attempt, idx, lastErr, result, ret,
                tx, trace, calls, telAtCall, sleepsTotal, ctx, clsIn, clsOut,
                held, closes, lateUse, txState, txPrev, telProc, opIn, opOut,
                rows, nd>>

\* if !t.IsEnabled() { return }
MuRecordEnter(g, method, d) ==
    /\ loc[g].at = "idle"
    /\ RecCallsTotal < MaxMuRecords
    /\ d \in Durations
    /\ method # "RecordQuery" => d = 1
    /\ CanRLock(mu)
    /\ recCalls' = [recCalls EXCEPT ![method] = @ + 1]
    /\ loc' = [loc EXCEPT ![g] = IF IsEnabled(telemetry)
                                 THEN [at |-> "lock", method |-> method,
                                       val |-> 0, d |-> d]
                                 ELSE Idle]
    /\ UNCHANGED <<telemetry, metrics, mu>>
    /\ MuUnchanged

\* t.mu.Lock(), and the read of counter++.
MuRecordLock(g) ==
    /\ loc[g].at = "lock"
    /\ CanLock(mu)
    /\ mu' = [mu EXCEPT !.w = g]
    /\ loc' = [loc EXCEPT ![g].at = "write",
                          ![g].val = telemetry[RecordMethods[loc[g].method]]]
    /\ UNCHANGED <<telemetry, metrics, recCalls>>
    /\ MuUnchanged

\* The write of counter++, t.queryDuration += duration in RecordQuery, and the
\* deferred t.mu.Unlock().
MuRecordWrite(g) ==
    /\ loc[g].at = "write"
    /\ telemetry' =
         [telemetry EXCEPT ![RecordMethods[loc[g].method]] = loc[g].val + 1,
                           !.queryDuration =
                               IF loc[g].method = "RecordQuery"
                               THEN @ + loc[g].d ELSE @]
    /\ mu' = [mu EXCEPT !.w = "none"]
    /\ loc' = [loc EXCEPT ![g] = Idle]
    /\ UNCHANGED <<metrics, recCalls>>
    /\ MuUnchanged

\* GetMetrics: t.mu.RLock() and avgDuration.
MuGetMetricsAvg(g) ==
    /\ loc[g].at = "idle"
    /\ Len(metrics) < MaxMuSnapshots
    /\ CanRLock(mu)
    /\ mu' = [mu EXCEPT !.r = @ \cup {g}]
    /\ loc' = [loc EXCEPT ![g] = [at |-> "map", method |-> "GetMetrics",
                                  val |-> AvgDuration(telemetry), d |-> 0]]
    /\ UNCHANGED <<telemetry, metrics, recCalls>>
    /\ MuUnchanged

\* GetMetrics: the map, and the deferred t.mu.RUnlock().
MuGetMetricsMap(g) ==
    /\ loc[g].at = "map"
    /\ metrics' = Append(metrics, MetricsMap(telemetry, loc[g].val))
    /\ mu' = [mu EXCEPT !.r = @ \ {g}]
    /\ loc' = [loc EXCEPT ![g] = Idle]
    /\ UNCHANGED <<telemetry, recCalls>>
    /\ MuUnchanged

----------------------------------------------------------------------------
\* The context of Query and QueryRow on an endpoint, and the Rows / Row they
\* return.

\* A QueryTimeout that is set, in ticks.
SomeTimeout == 1

NoRows == [at |-> "none", role |-> "-", op |-> "-", qctx |-> "-", readCtx |-> "-"]

\* if QueryTimeout > 0 { ctx, cancel = context.WithTimeout(ctx, QueryTimeout);
\* defer cancel() }: the context the query is issued with.
QueryContext(cfg) == IF cfg.QueryTimeout > 0 THEN "derived" ELSE "caller"

\* The deferred cancel() when the method returns.
DeferCancel(qctx) == IF qctx = "derived" THEN "cancelled" ELSE qctx

RowsUnchanged ==
    UNCHANGED <<config, driver, telemetry, pc, call, attempt, idx, lastErr,
                result, ret, tx, trace, calls, telAtCall, sleepsTotal, ctx,
                telProc, metrics, clsIn, clsOut, held, closes, lateUse, txState,
                txPrev, mu, loc, recCalls, opIn, opOut, nd>>

\* masterConn / replicaConn Query or QueryRow up to the call of the Database
\* Client, which binds the Rows / Row to the context it is given.
RowsIssue(i, op) ==
    /\ rows.at \in {"none", "read"}
    /\ Connections[i].conn # "nil"
    /\ rows' = [at |-> "issued", role |-> Connections[i].role, op |-> op,
                qctx |-> QueryContext(config), readCtx |-> "-"]
    /\ RowsUnchanged

\* The method returns the Rows / Row; its deferred functions run.
RowsReturn ==
    /\ rows.at = "issued"
    /\ rows' = [rows EXCEPT !.at = "returned", !.qctx = DeferCancel(@)]
    /\ RowsUnchanged

\* The first Next on the Rows or Scan on the Row, by the caller or by the
\* closure of retryableRow.Scan.
RowsFirstRead ==
    /\ rows.at = "returned"
    /\ rows' = [rows EXCEPT !.at = "read", !.readCtx = rows.qctx]
    /\ RowsUnchanged

----------------------------------------------------------------------------
\* NewDriver, one pgx.Connect at a time.

NotStarted == [at |-> "master", open |-> {}, ret |-> "-"]

NewUnchanged ==
    UNCHANGED <<config, driver, telemetry, pc, call, attempt, idx, lastErr,
                result, ret, tx, trace, calls, telAtCall, sleepsTotal, ctx,
                telProc, metrics, clsIn, clsOut, held, closes, lateUse, txState,
                txPrev, mu, loc, recCalls, opIn, opOut, rows>>

\* The connection string of a role; the primary's is always given.
ConnString(cfg, role) ==
    CASE role = "master" -> "master"
      [] role = "sync" -> cfg.SyncSlaveConnString
      [] role = "async" -> cfg.AsyncSlaveConnString

\* The role NewDriver connects to after this one.
NextRole(role) ==
    CASE role = "master" -> "sync"
      [] role = "sync" -> "async"
      [] role = "async" -> "return"

\* One connect step of NewDriver: skipped when the connection string is empty;
\* on failure NewDriver returns the error at once, on success it keeps the
\* connection and goes on.
NewConnect(role, ok) ==
    /\ nd.ret = "-"
    /\ nd.at = role
    /\ nd' = IF ConnString(config, role) = ""
                THEN [nd EXCEPT !.at = NextRole(role)]
             ELSE IF ok
                THEN [nd EXCEPT !.at = NextRole(role), !.open = @ \cup {role}]
             ELSE [nd EXCEPT !.at = "return", !.ret = "error"]
    /\ NewUnchanged

\* return driver, nil
NewReturn ==
    /\ nd.ret = "-"
    /\ nd.at = "return"
    /\ nd' = [nd EXCEPT !.ret = "driver"]
    /\ NewUnchanged

\* The caller calls NewDriver again.
NewAgain ==
    /\ nd.ret # "-"
    /\ nd' = NotStarted
    /\ NewUnchanged

----------------------------------------------------------------------------
\* The lifecycle of the connections: Master(), SyncSlave(), Slave(), the Close
\* of a handle and Driver.Close.

MaxLifeCalls == 3

\* What Close of a Database Client connection can answer.
CloseOutcomes == {"ok", "connection reset by peer"}

\* The driver's field for a role.
FieldOf(role) ==
    CASE role = "master" -> driver.master
      [] role = "sync" -> driver.syncSlave
      [] role = "async" -> driver.asyncSlave

MasterClosePrefix == "error closing master connection: "
SyncClosePrefix == "error closing sync replica: "
AsyncClosePrefix == "error closing async replica: "
CloseAllPrefix == "errors while closing connections: "

ClosePrefix(role) ==
    CASE role = "master" -> MasterClosePrefix
      [] role = "sync" -> SyncClosePrefix
      [] role = "async" -> AsyncClosePrefix

\* fmt.Errorf(prefix + "%v", errs) for a slice of errors: the texts between
\* brackets, nothing wrapped.
Errorf_v_slice(prefix, errs) ==
    LET RECURSIVE Texts(_)
        Texts(i) == IF i > Len(errs) THEN <<>> ELSE errs[i].msg \o Texts(i + 1)
        m == <<prefix, "[">> \o Texts(1) \o <<"]">>
    IN  [msg |-> m, is |-> {m}, code |-> ""]

\* Master(), SyncSlave() and Slave(): a wrapper around the role's connection,
\* or nil when the replica is not configured.
Master == [wrapper |-> "masterConn", role |-> "master"]

SyncSlave ==
    IF driver.syncSlave = "nil" THEN NilHandle
    ELSE [wrapper |-> "retryableConn", role |-> "sync"]

Slave ==
    IF driver.asyncSlave = "nil" THEN NilHandle
    ELSE [wrapper |-> "retryableConn", role |-> "async"]

Getters == {"Master", "SyncSlave", "Slave"}

Getter(entry) ==
    CASE entry = "Master" -> Master
      [] entry = "SyncSlave" -> SyncSlave
      [] entry = "Slave" -> Slave

\* One connection of Driver.Close: skipped when the field is nil, otherwise
\* closed, and a failure is wrapped and appended to errs.
CloseOne(role, out) ==
    IF FieldOf(role) = "nil" THEN [events |-> <<>>, errs |-> <<>>]
    ELSE [events |-> << Event("close", role, "Close", TRUE, out,
                              IF out = "ok" THEN NilErr ELSE DbErr(out)) >>,
          errs |-> IF out = "ok" THEN <<>>
                   ELSE << Errorf_w(ClosePrefix(role), DbErr(out)) >>]

\* A Driver.Close that returns at the first failure.
DriverCloseStoppingAtFailure(outs) ==
    LET m == CloseOne("master", outs["master"])
        s == CloseOne("sync", outs["sync"])
        a == CloseOne("async", outs["async"])
    IN  IF m.errs # <<>> THEN [events |-> m.events, err |-> m.errs[1]]
        ELSE IF s.errs # <<>>
        THEN [events |-> m.events \o s.events, err |-> s.errs[1]]
        ELSE [events |-> m.events \o s.events \o a.events,
              err |-> IF a.errs # <<>> THEN a.errs[1] ELSE NilErr]

\* Driver.Close: master, sync, async in this order, each when set; every
\* failure collected; nil when none, otherwise one error listing them.
DriverClose(outs) ==
    LET m == CloseOne("master", outs["master"])
        s == CloseOne("sync", outs["sync"])
        a == CloseOne("async", outs["async"])
        errs == m.errs \o s.errs \o a.errs
    IN  [events |-> m.events \o s.events \o a.events,
         err |-> IF Len(errs) > 0 THEN Errorf_v_slice(CloseAllPrefix, errs)
                 ELSE NilErr]

\* How many times a sequence of events closed the connection of a role.
ClosedBy(events, role) ==
    Len(SelectSeq(events, LAMBDA e : e.t = "close" /\ e.role = role))

\* What every lifecycle step leaves alone.
LifeUnchanged ==
    UNCHANGED <<config, driver, pc, attempt, idx, lastErr, tx, telAtCall,
                sleepsTotal, ctx, telProc, metrics, clsIn, clsOut, txState,
                txPrev, mu, loc, recCalls,
                opIn, opOut,
                rows, nd>>

LifeStep(entry, op, events, err) ==
    /\ calls < MaxLifeCalls
    /\ calls' = calls + 1
    /\ call' = [entry |-> entry, op |-> op]
    /\ trace' = events
    /\ ret' = err
    /\ closes' = [r \in Roles |-> closes[r] + ClosedBy(events, r)]
    /\ lateUse' = lateUse \cup
                    {r \in Roles : /\ closes[r] > 0
                                   /\ \E i \in 1..Len(events) :
                                        /\ events[i].role = r
                                        /\ events[i].db}
    /\ LifeUnchanged

\* The application asks the driver for a handle.
LifeGet(entry) ==
    /\ held' = Getter(entry)
    /\ LifeStep(entry, "get", <<>>, NilErr)
    /\ UNCHANGED <<telemetry, result>>

\* Close on the handle held: masterConn.Close, or retryableConn.Close through
\* replicaConn.Close; each hands the call to the connection and returns its
\* answer.
LifeHandleClose(out) ==
    /\ held # NilHandle
    /\ LifeStep(held.wrapper, "Close",
                << Event("close", held.role, "Close", TRUE, out,
                         IF out = "ok" THEN NilErr ELSE DbErr(out)) >>,
                IF out = "ok" THEN NilErr ELSE DbErr(out))
    /\ UNCHANGED <<held, telemetry, result>>

LifeDriverClose(outs) ==
    /\ LET r == DriverClose(outs)
       IN  LifeStep("Driver", "Close", r.events, r.err)
    /\ UNCHANGED <<held, telemetry, result>>

\* An operation on the handle held that does not go through the retry loop,
\* or Driver.Begin.
LifeUse(via, op, out) ==
    /\ via = "Driver" => op \in {"Begin", "BeginTx"}
    /\ via = "held" => /\ held # NilHandle
                       /\ held.wrapper = "masterConn" \/ op \in {"Begin", "BeginTx"}
    /\ LET c == IF via = "Driver" \/ held.role = "master" THEN Connections[3]
                ELSE IF held.role = "sync" THEN Connections[2]
                ELSE Connections[1]
           r == IF via = "Driver" THEN DriverBegin(out, telemetry)
                ELSE ConnCall(c, op, out, telemetry)
       IN  /\ r.db \/ out = "ok"
           /\ telemetry' = r.tel
           /\ result' = IF r.err = NilErr THEN c.role ELSE "none"
           /\ LifeStep(IF via = "Driver" THEN "Driver" ELSE held.wrapper, op,
                       << Event("invoke", c.role, op, r.db,
                                IF r.db THEN out ELSE "-", r.err) >>,
                       r.err)
    /\ UNCHANGED held

----------------------------------------------------------------------------
\* The Tx handle: the txWrapper that Driver.Begin / Driver.BeginTx return,
\* around the transaction of the Database Client.

MaxTxCalls == 3

ErrTxPing == New("ping is not supported in transaction")
TxQueryPrefix == "error executing query in transaction: "

\* The transaction of the Database Client: open after a begin that succeeded,
\* then committed, rolled back, or closed by a Commit or Rollback that failed.
TxStates == {"open", "committed", "rolledback", "failed"}

\* What the Database Client answers to a call on the transaction: anything
\* while it is open, "tx is closed" once it is over.
TxClosed == "tx is closed"
TxOutcomes(st) ==
    IF st = "open" THEN {"ok", "connection refused"} ELSE {TxClosed}

\* The transaction after Commit or Rollback was called on it.
TxAfter(op, st, out) ==
    IF st # "open" THEN st
    ELSE IF out # "ok" THEN "failed"
    ELSE IF op = "Commit" THEN "committed"
    ELSE "rolledback"

txWrapperExec(out, t) ==
    IF out = "ok" THEN Outcome(NilErr, TRUE, DeferRecordQuery(t))
    ELSE Outcome(Errorf_w(TxQueryPrefix, DbErr(out)), TRUE,
                 DeferRecordQuery(OnError(t)))

\* A handle that opens a nested transaction on the Database Client.
txWrapperBeginForwarding(t) == Outcome(NilErr, TRUE, t)

txWrapperBegin(t) == Outcome(ErrNestedTx, FALSE, t)

\* A handle that pings the connection of the transaction.
txWrapperPingForwarding(t) == Outcome(NilErr, TRUE, t)

txWrapperPing(t) == Outcome(ErrTxPing, FALSE, t)

txWrapperClose(t) == Outcome(NilErr, FALSE, t)

\* What every call on the Tx handle leaves alone.
TxHandleUnchanged ==
    UNCHANGED <<config, driver, pc, attempt, idx, lastErr, tx, telAtCall,
                sleepsTotal, ctx, telProc, metrics, clsIn, clsOut, held,
                closes, lateUse, mu, loc, recCalls,
                opIn, opOut,
                rows, nd>>

TxHandleStep(entry, op, out, r) ==
    /\ calls < MaxTxCalls
    /\ calls' = calls + 1
    /\ call' = [entry |-> entry, op |-> op]
    /\ trace' = << Event("invoke", "master", op, r.db,
                         IF r.db THEN out ELSE "-", r.err) >>
    /\ ret' = r.err
    /\ result' = IF r.err = NilErr THEN "master" ELSE "none"
    /\ telemetry' = r.tel
    /\ txPrev' = txState
    /\ TxHandleUnchanged

\* Driver.Begin / Driver.BeginTx hands out the handle.
TxHandleOpen(op, out) ==
    /\ txState = "none"
    /\ LET r == DriverBegin(out, telemetry)
       IN  /\ TxHandleStep("Driver", op, out, r)
           /\ txState' = IF r.err = NilErr THEN "open" ELSE "none"

\* txWrapper.Exec / Query: handed to the transaction.
TxHandleExec(op, out) ==
    /\ txState \in TxStates
    /\ out \in TxOutcomes(txState)
    /\ TxHandleStep("txWrapper", op, out, txWrapperExec(out, telemetry))
    /\ UNCHANGED txState

\* txWrapper.Begin / BeginTx.
TxHandleBegin(op) ==
    /\ txState \in TxStates
    /\ TxHandleStep("txWrapper", op, "-", txWrapperBegin(telemetry))
    /\ UNCHANGED txState

\* txWrapper.Ping.
TxHandlePing ==
    /\ txState \in TxStates
    /\ TxHandleStep("txWrapper", "Ping", "-", txWrapperPing(telemetry))
    /\ UNCHANGED txState

\* txWrapper.Close.
TxHandleClose ==
    /\ txState \in TxStates
    /\ TxHandleStep("txWrapper", "Close", "-", txWrapperClose(telemetry))
    /\ UNCHANGED txState

\* txWrapper.Commit.
TxHandleCommit(out) ==
    /\ txState \in TxStates
    /\ out \in TxOutcomes(txState)
    /\ TxHandleStep("txWrapper", "Commit", out, txWrapperCommit(out, telemetry))
    /\ txState' = TxAfter("Commit", txState, out)

\* txWrapper.Rollback.
TxHandleRollback(out) ==
    /\ txState \in TxStates
    /\ out \in TxOutcomes(txState)
    /\ TxHandleStep("txWrapper", "Rollback", out,
                    txWrapperRollback(out, telemetry))
    /\ txState' = TxAfter("Rollback", txState, out)

----------------------------------------------------------------------------

\* NewDriver, for the configurations whose connections all open: a replica is
\* connected exactly when its connection string is not empty.
NewDriver(cfg) ==
    [master |-> "conn",
     syncSlave |-> IF cfg.SyncSlaveConnString # "" THEN "conn" ELSE "nil",
     asyncSlave |-> IF cfg.AsyncSlaveConnString # "" THEN "conn" ELSE "nil",
     replicaFallback |-> ~cfg.DisableReplicaFallback,
     telemetry |-> IF cfg.EnableTelemetry THEN "set" ELSE "nil"]

\* QueryTimeout is 0, no deadline, wherever the deadline plays no part.
Configs ==
    [MaxRetries : (-1)..MaxRetriesBound,
     QueryTimeout : {0},
     DisableReplicaFallback : BOOLEAN,
     EnableTelemetry : BOOLEAN,
     SyncSlaveConnString : {"", "sync"},
     AsyncSlaveConnString : {"", "async"}]

InitWith(cfgs) ==
    /\ config \in cfgs
    /\ driver = NewDriver(config)
    /\ telemetry = NewTelemetry
    /\ pc = "idle"
    /\ call = [entry |-> "-", op |-> "-"]
    /\ attempt = 0
    /\ idx = 0
    /\ lastErr = NilErr
    /\ result = "none"
    /\ ret = NilErr
    /\ tx = "nil"
    /\ trace = <<>>
    /\ calls = 0
    /\ telAtCall = NewTelemetry
    /\ sleepsTotal = 0
    /\ ctx = "live"
    /\ telProc = [p \in Goroutines |-> "idle"]
    /\ metrics = <<>>
    /\ clsIn = NilErr
    /\ clsOut = FALSE
    /\ held = NilHandle
    /\ closes = [r \in Roles |-> 0]
    /\ lateUse = {}
    /\ txState = "none"
    /\ txPrev = "none"
    /\ mu = Unlocked
    /\ loc = [g \in Goroutines |-> Idle]
    /\ recCalls = [m \in DOMAIN RecordMethods |-> 0]
    /\ opIn = [entry |-> "-", idx |-> 0, op |-> "-", out |-> "-", attempt |-> 0]
    /\ opOut = [r |-> Outcome(NilErr, FALSE, NewTelemetry),
                pass |-> [kind |-> "-", idx |-> 0, err |-> NilErr,
                          tel |-> NewTelemetry],
                loop |-> [kind |-> "-", err |-> NilErr, tel |-> NewTelemetry]]
    /\ rows = NoRows
    /\ nd = NotStarted

Init == InitWith(Configs)

\* Calls through the handles and the retry loop.
Next ==
    \/ \E entry \in Entries, op \in EngineOps : Call(entry, op)
    \/ \E out \in CtxOutcomes : Invoke(out)
    \/ Sleep
    \/ Cancel
    \/ \E handle \in {"Master", "Slave", "SyncSlave"}, op \in MasterOps,
          out \in DbOutcomes : DirectCall(handle, op, out)
    \/ \E op \in {"Begin", "BeginTx"}, out \in DbOutcomes : DriverBeginCall(op, out)

Spec == Init /\ [][Next]_vars

\* Calls of the scoped transaction helpers.
NextTx ==
    \/ \E helper \in TxHelpers, out \in DbOutcomes : TxStart(helper, out)
    \/ \E e \in FnResults : TxFn(e)
    \/ \E out \in DbOutcomes : TxRollback(out)
    \/ \E out \in DbOutcomes : TxCommit(out)
    \/ \E out \in DbOutcomes : TxDefer(out)

SpecTx == Init /\ [][NextTx]_vars

\* Goroutines sharing the Telemetry of one driver built with EnableTelemetry.
TelConfig ==
    [MaxRetries |-> 0, QueryTimeout |-> 0, DisableReplicaFallback |-> FALSE,
     EnableTelemetry |-> TRUE,
     SyncSlaveConnString |-> "", AsyncSlaveConnString |-> ""]

InitTel == Init /\ config = TelConfig

NextTel ==
    \/ \E g \in Goroutines, method \in DOMAIN RecordMethods : TelRecordEnter(g, method)
    \/ \E g \in Goroutines : TelRecordIncrement(g)
    \/ TelDisable
    \/ TelEnable
    \/ TelGetMetrics

SpecTel == InitTel /\ [][NextTel]_vars

\* The errors handed to the classifier on its own: the errors the wrapper
\* produces or meets, bare and under up to MaxWrap role prefixes.
BaseErrors ==
    {NilErr, ErrMasterOnlyOperation, ErrNoAvailableReplicas, ErrMaxRetriesExceeded,
     New("connection reset by peer"), New(Canceled)}
      \cup {DbErr(m) : m \in DbErrors}
      \cup {PgError(c) : c \in ConnectionCodes \cup {"23505", "42601"}}

WrapPrefixes ==
    {MasterQueryPrefix, ReplicaQueryPrefix, ReplicaPingPrefix, NoReplicaSucceededPrefix}

RECURSIVE Wrapped(_)
Wrapped(n) ==
    IF n = 0 THEN BaseErrors
    ELSE Wrapped(n - 1) \cup
           {Errorf_w(p, e) : p \in WrapPrefixes, e \in Wrapped(n - 1) \ {NilErr}}

ClassifierInputs == Wrapped(MaxWrap)

\* isConnectionError(err) called on its own.
Classify(err) ==
    /\ clsIn' = err
    /\ clsOut' = isConnectionError(err)
    /\ UNCHANGED <<config, driver, telemetry, pc, call, attempt, idx, lastErr,
                   result, ret, tx, trace, calls, telAtCall, sleepsTotal, ctx,
                   telProc, metrics, held, closes, lateUse, txState, txPrev,
                   mu, loc, recCalls,
                   opIn, opOut,
                   rows, nd>>

NextCls == \E err \in ClassifierInputs : Classify(err)

SpecCls == InitTel /\ [][NextCls]_vars

\* The connection lifecycle: handles are taken, used and closed, and the
\* driver is closed, in any order.
InitLife ==
    /\ Init
    /\ config.MaxRetries = 0
    /\ ~config.EnableTelemetry

NextLife ==
    \/ \E entry \in Getters : LifeGet(entry)
    \/ \E out \in CloseOutcomes : LifeHandleClose(out)
    \/ \E outs \in [Roles -> CloseOutcomes] : LifeDriverClose(outs)
    \/ \E via \in {"Driver", "held"}, op \in MasterOps, out \in {"ok", "syntax error"} :
         LifeUse(via, op, out)

SpecLife == InitLife /\ [][NextLife]_vars

\* The Tx handle: a transaction is begun on the driver and the handle is
\* called in any order.
InitTxHandle ==
    /\ Init
    /\ config.MaxRetries = 0

NextTxHandle ==
    \/ \E op \in {"Begin", "BeginTx"}, out \in {"ok", "connection refused"} :
         TxHandleOpen(op, out)
    \/ \E op \in {"Exec", "Query"}, out \in {"ok", "connection refused", TxClosed} :
         TxHandleExec(op, out)
    \/ \E op \in {"Begin", "BeginTx"} : TxHandleBegin(op)
    \/ TxHandlePing
    \/ TxHandleClose
    \/ \E out \in {"ok", "connection refused", TxClosed} : TxHandleCommit(out)
    \/ \E out \in {"ok", "connection refused", TxClosed} : TxHandleRollback(out)

SpecTxHandle == InitTxHandle /\ [][NextTxHandle]_vars

\* Telemetry with its lock shown, under concurrent Record* and GetMetrics calls.
NextMu ==
    \/ \E g \in Goroutines, method \in DOMAIN RecordMethods, d \in Durations :
         MuRecordEnter(g, method, d)
    \/ \E g \in Goroutines : MuRecordLock(g)
    \/ \E g \in Goroutines : MuRecordWrite(g)
    \/ \E g \in Goroutines : MuGetMetricsAvg(g)
    \/ \E g \in Goroutines : MuGetMetricsMap(g)

SpecMu == InitTel /\ [][NextMu]_vars

\* The closures of the calls on their own, on every entry of the chain.
NextOp ==
    \E entry \in {"executeWithRetry", "ExecuteReadQueryWithRetry"},
       i \in 1..Len(Connections), op \in EngineOps, out \in DbOutcomes,
       a \in 0..MaxRetriesBound :
        ApplyOperation(entry, i, op, out, a)

SpecOp == Init /\ [][NextOp]_vars

\* Queries on the endpoints with and without a QueryTimeout.
RowsConfigs == {[c EXCEPT !.QueryTimeout = q] : c \in Configs, q \in {0, SomeTimeout}}

InitRows == InitWith(RowsConfigs)

NextRows ==
    \/ \E i \in 1..Len(Connections), op \in {"Query", "QueryRow"} : RowsIssue(i, op)
    \/ RowsReturn
    \/ RowsFirstRead

SpecRows == InitRows /\ [][NextRows]_vars

\* Calls of NewDriver whose connects succeed or fail.
NextNew ==
    \/ \E role \in {"master", "sync", "async"}, ok \in BOOLEAN : NewConnect(role, ok)
    \/ NewReturn
    \/ NewAgain

SpecNew == Init /\ [][NextNew]_vars

----------------------------------------------------------------------------
\* Vocabulary of the properties.

ReadOps == {"Query", "QueryRow", "Ping"}
ReplicaRoles == {"async", "sync"}
ReplicaHandles == {"Slave", "SyncSlave"}

\* The call in flight went through the retry loop.
EngineCall == call.entry \in Entries /\ call.op \in EngineOps

\* Every invocation of the call reached the Database Client and was answered
\* with a connection-class error.
EveryInvocationTransient ==
    /\ Invocations(trace) # <<>>
    /\ \A k \in 1..Len(trace) :
         trace[k].t = "invoke" => trace[k].db /\ trace[k].out \in TransientMessages

\* Positions of the trace where the first candidate of a pass was invoked.
FirstOfPass == {k \in 2..Len(trace) : trace[k].t = "invoke" /\ trace[k - 1].t = "pass"}

----------------------------------------------------------------------------
\* C1: for maxRetries = n >= 0, a read through a replica handle whose every
\* endpoint invocation fails with a connection-class error makes exactly n+1
\* fallback passes and exactly n sleeps, and returns an error.
C1_PermanentTransientFailureRetries ==
    ( /\ pc = "done"
      /\ EngineCall
      /\ call.entry \in ReplicaHandles
      /\ call.op \in ReadOps
      /\ config.MaxRetries >= 0
      /\ EveryInvocationTransient )
    => /\ Passes(trace) = config.MaxRetries + 1
       /\ Sleeps(trace) = config.MaxRetries
       /\ ret # NilErr

\* C2: when the first candidate of a fallback pass fails with an error that is
\* not connection-class, the call returns that very error at once, whatever
\* MaxRetries is: no later endpoint of the chain, no further pass, no sleep.
\* When that pass is the first of the call, the call made one invocation, one
\* pass, no sleep and counted no retry.
C2_FatalOnFirstCandidateReturnsAtOnce ==
    EngineCall =>
      \A k \in FirstOfPass :
        (trace[k].err # NilErr /\ ~HasTransientCause(trace[k].err)) =>
          /\ pc = "done"
          /\ ret = trace[k].err
          /\ Len(trace) = k + 1
          /\ trace[k + 1] = PassEndEvent(trace[k].err)
          /\ k = 2 => /\ Len(Invocations(trace)) = 1
                      /\ Passes(trace) = 1
                      /\ Sleeps(trace) = 0
                      /\ telemetry.totalRetries = telAtCall.totalRetries

\* C2 witness: with two retries allowed and a chain of three endpoints, the
\* first endpoint answered with a syntax error and the call is over.
C2_Witness ==
    /\ pc = "done"
    /\ EngineCall
    /\ config.MaxRetries = 2
    /\ driver.replicaFallback
    /\ driver.syncSlave # "nil"
    /\ Len(trace) = 3
    /\ trace[2].t = "invoke"
    /\ trace[2].out = "syntax error"
    /\ ret = trace[2].err

\* C3: Exec, Begin and BeginTx on a replica endpoint return
\* ErrMasterOnlyOperation and never invoke the Database Client.
C3_ReplicaRejectsWritesAndTransactions ==
    \A k \in 1..Len(trace) :
      ( /\ trace[k].t = "invoke"
        /\ trace[k].role \in ReplicaRoles
        /\ trace[k].op \in {"Exec", "Begin", "BeginTx"} )
      => trace[k].err = ErrMasterOnlyOperation /\ ~trace[k].db

\* C3 witness: BeginTx on the SyncSlave() handle was rejected by the sync
\* replica endpoint.
C3_Witness ==
    /\ pc = "done"
    /\ call = [entry |-> "SyncSlave", op |-> "BeginTx"]
    /\ trace[1].role = "sync"
    /\ trace[1].err = ErrMasterOnlyOperation
    /\ ret = ErrMasterOnlyOperation

\* C4: Exec on the handle of Slave() or SyncSlave(), fallback enabled, returns
\* exactly ErrMasterOnlyOperation after one pass, without sleep or retry, and
\* never reaches the primary or any Database Client connection.  MaxRetries
\* is a retry count of the configuration contract, that is, not negative.
C4_ExecOnReplicaHandleIsRejected ==
    ( /\ pc = "done"
      /\ EngineCall
      /\ call.entry \in ReplicaHandles
      /\ call.op = "Exec"
      /\ driver.replicaFallback
      /\ config.MaxRetries >= 0 )
    => /\ ret = ErrMasterOnlyOperation
       /\ Passes(trace) = 1
       /\ Sleeps(trace) = 0
       /\ telemetry.totalRetries = telAtCall.totalRetries
       /\ \A k \in 1..Len(trace) :
            trace[k].t = "invoke" => trace[k].role # "master" /\ ~trace[k].db

\* C4 witness: Exec on the SyncSlave() handle with two retries allowed is over
\* and was rejected.
C4_Witness ==
    /\ pc = "done"
    /\ call = [entry |-> "SyncSlave", op |-> "Exec"]
    /\ driver.replicaFallback
    /\ config.MaxRetries = 2
    /\ ret = ErrMasterOnlyOperation
    /\ Len(Invocations(trace)) = 1

\* C5: with fallback disabled and an async replica configured, every pass of a
\* read invokes the async replica exactly once and nothing else, and returns
\* what that invocation returned.
C5_DisabledFallbackStaysOnAsyncReplica ==
    ( /\ EngineCall
      /\ call.op \in ReadOps
      /\ ~driver.replicaFallback
      /\ driver.asyncSlave # "nil" )
    => \A k \in 1..Len(trace) :
         /\ trace[k].t = "invoke" =>
              /\ trace[k].role = "async"
              /\ k > 1
              /\ trace[k - 1].t = "pass"
         /\ trace[k].t = "pass" =>
              IF k = Len(trace) THEN pc = "invoke" ELSE trace[k + 1].t = "invoke"
         /\ trace[k].t = "passEnd" =>
              /\ k > 1
              /\ trace[k - 1].t = "invoke"
              /\ trace[k].err = trace[k - 1].err

\* C5 witness: two passes of a read failed on the async replica while the sync
\* replica and the primary were there to fall back to.
C5_Witness ==
    /\ pc = "done"
    /\ EngineCall
    /\ call.op \in ReadOps
    /\ ~driver.replicaFallback
    /\ driver.syncSlave # "nil"
    /\ Passes(trace) = 2
    /\ Len(Invocations(trace)) = 2
    /\ ret # NilErr

\* C6: with fallback enabled and neither replica configured, a read run
\* through the retry loop invokes only the primary and succeeds whenever the
\* primary call succeeds.
C6_ReadWithoutReplicasUsesPrimary ==
    ( /\ EngineCall
      /\ call.op \in ReadOps
      /\ driver.replicaFallback
      /\ driver.syncSlave = "nil"
      /\ driver.asyncSlave = "nil" )
    => /\ pc # "panicked"
       /\ \A k \in 1..Len(trace) :
            trace[k].t = "invoke" =>
              /\ trace[k].role = "master"
              /\ (pc = "done" /\ trace[k].out = "ok") => ret = NilErr

\* C7: maxRetries = 2, fallback enabled, both replicas answering every Query
\* with "connection refused", the primary answering: a Query on a replica
\* handle tries async replica, sync replica and primary once each in the first
\* pass, returns the primary's result, does not sleep and counts no retry.
C7_FallbackReachesPrimaryInFirstPass ==
    ( /\ pc = "done"
      /\ EngineCall
      /\ call.entry \in ReplicaHandles
      /\ call.op = "Query"
      /\ config.MaxRetries = 2
      /\ driver.replicaFallback
      /\ driver.syncSlave # "nil"
      /\ driver.asyncSlave # "nil"
      /\ \A k \in 1..Len(trace) :
           trace[k].t = "invoke" =>
             IF trace[k].role = "master" THEN trace[k].out = "ok"
             ELSE trace[k].out = "connection refused" )
    => /\ ret = NilErr
       /\ result = "master"
       /\ Passes(trace) = 1
       /\ Sleeps(trace) = 0
       /\ [k \in 1..Len(Invocations(trace)) |-> Invocations(trace)[k].role]
            = <<"async", "sync", "master">>
       /\ telemetry.totalRetries = telAtCall.totalRetries

----------------------------------------------------------------------------
\* m holds sub at position i.
HoldsAt(m, sub, i) ==
    /\ i >= 1
    /\ i + Len(sub) - 1 <= Len(m)
    /\ SubSeq(m, i, i + Len(sub) - 1) = sub

TxEvents(kind) == Len(SelectSeq(trace, LAMBDA e : e.t = kind))

\* The helper's function was run and returned an error.
FnFailed ==
    /\ call.entry \in TxHelpers
    /\ Len(trace) >= 2
    /\ trace[2].t = "fn"
    /\ trace[2].err # NilErr

C9_HandleConsumedExactlyOnce ==
    ( /\ pc = "done"
      /\ call.entry \in TxHelpers
      /\ trace[1].err = NilErr )
    => TxEvents("commit") + TxEvents("rollback") = 1

\* C10: with telemetry enabled, between calls totalRetries equals the number
\* of sleeps the retry loop has made.
C10_RetriesEqualSleeps ==
    (driver.telemetry # "nil" /\ telemetry.enabled /\ pc \in {"idle", "done"})
    => telemetry.totalRetries = sleepsTotal

----------------------------------------------------------------------------
\* C11: whatever the interleaving of Record*, Enable, Disable and GetMetrics
\* calls of concurrent goroutines, a later GetMetrics map never shows a smaller
\* total_queries, total_errors, total_retries or connection_errors than an
\* earlier one.
C11_SnapshotsNeverDecrease ==
    \A i, j \in 1..Len(metrics) :
      i < j => /\ metrics[i].total_queries <= metrics[j].total_queries
               /\ metrics[i].total_errors <= metrics[j].total_errors
               /\ metrics[i].total_retries <= metrics[j].total_retries
               /\ metrics[i].connection_errors <= metrics[j].connection_errors

\* C11 witness: a RecordRetry that passed IsEnabled() incremented its counter
\* between two GetMetrics calls although Disable ran in between, while the
\* other goroutine is inside a Record* call of its own.
C11_Witness ==
    /\ Len(metrics) >= 2
    /\ metrics[1].enabled
    /\ ~metrics[2].enabled
    /\ metrics[1].total_retries < metrics[2].total_retries
    /\ \E g \in Goroutines : telProc[g] # "idle"

\* C12: once the caller's context is cancelled during the inter-attempt delay,
\* the retry loop starts no further fallback pass and invokes no endpoint, and
\* the call returns a cancellation error.
C12_CancelDuringDelayAborts ==
    \A k \in 1..Len(trace) :
      trace[k].t = "cancel" =>
        /\ \A j \in (k + 1)..Len(trace) : trace[j].t \notin {"sleep", "pass", "invoke"}
        /\ pc = "done" => <<Canceled>> \in ret.is

\* C13: a Query, QueryRow or Ping on the handle of SyncSlave() invokes the sync
\* replica first, never the async replica before it; a Query on the handle of
\* Slave() invokes the async replica first.
C13_ChainStartsAtRequestedRole ==
    (EngineCall /\ call.op \in ReadOps /\ Invocations(trace) # <<>>)
    => /\ call.entry = "SyncSlave" => Invocations(trace)[1].role = "sync"
       /\ (call.entry = "Slave" /\ call.op = "Query")
            => Invocations(trace)[1].role = "async"

\* The invocations of the pass that starts at position k of the trace.
PassInvocations(k) ==
    LET ends == {j \in (k + 1)..Len(trace) : trace[j].t # "invoke"}
        stop == IF ends = {} THEN Len(trace) + 1
                ELSE CHOOSE j \in ends : \A i \in ends : j <= i
    IN  SubSeq(trace, k + 1, stop - 1)

ChainOrder == <<"async", "sync", "master">>

\* The roles of s are the first Len(s) roles of ChainOrder.
InChainOrder(s) ==
    /\ Len(s) <= Len(ChainOrder)
    /\ \A i \in 1..Len(s) : s[i].role = ChainOrder[i]

\* C14: with fallback enabled the endpoints of one pass are invoked in the
\* order async replica, sync replica, primary, and an invocation that succeeds
\* ends the pass with success: nothing later in the order is invoked.
C14_PassOrderAndStopOnSuccess ==
    (EngineCall /\ driver.replicaFallback)
    => \A k \in 1..Len(trace) :
         /\ trace[k].t = "pass" => InChainOrder(PassInvocations(k))
         /\ (trace[k].t = "invoke" /\ trace[k].err = NilErr /\ pc # "panicked")
              => /\ k < Len(trace)
                 /\ trace[k + 1] = PassEndEvent(NilErr)
                 /\ pc = "done"
                 /\ ret = NilErr

\* C14 witness: the async replica failed, the sync replica answered, and the
\* call returned without invoking the primary.
C14_Witness ==
    /\ pc = "done"
    /\ EngineCall
    /\ driver.replicaFallback
    /\ Len(trace) = 4
    /\ trace[2].role = "async"
    /\ trace[2].err # NilErr
    /\ trace[3].role = "sync"
    /\ trace[3].err = NilErr
    /\ ret = NilErr

\* Positions of the trace where an invocation succeeded.
Successes == {k \in 1..Len(trace) : trace[k].t = "invoke" /\ trace[k].err = NilErr}

\* C15: no pass invokes an endpoint twice; a call that returns nil hands back
\* the result of exactly one successful invocation, the last one made; a call
\* in which no invocation succeeded returns an error.
C15_OneSuccessOrAnError ==
    EngineCall
    => /\ \A k \in 1..Len(trace) :
            trace[k].t = "pass" =>
              \A i, j \in 1..Len(PassInvocations(k)) :
                i # j => PassInvocations(k)[i].role # PassInvocations(k)[j].role
       /\ (pc = "done" /\ ret = NilErr)
            => /\ Cardinality(Successes) = 1
               /\ Invocations(trace)[Len(Invocations(trace))].err = NilErr
               /\ result = Invocations(trace)[Len(Invocations(trace))].role
       /\ (pc = "done" /\ Successes = {}) => ret # NilErr /\ result = "none"

\* C15 witness: a call that failed on one pass, slept, and succeeded on the
\* next returns the result of its second invocation.
C15_Witness ==
    /\ pc = "done"
    /\ EngineCall
    /\ Sleeps(trace) = 1
    /\ Len(Invocations(trace)) = 2
    /\ ret = NilErr
    /\ result = "async"

\* C16: with fallback enabled, when the Database Client fails a Query on an
\* endpoint that is not the last of the chain with a connection-refused,
\* connection-reset or deadline-exceeded error, the pass goes on to the next
\* endpoint although the endpoint wrapped the error with its role.
C16_WrappedTransientErrorFallsBack ==
    (EngineCall /\ driver.replicaFallback /\ pc # "panicked")
    => \A k \in 1..Len(trace) :
         ( /\ trace[k].t = "invoke"
           /\ trace[k].op = "Query"
           /\ trace[k].db
           /\ trace[k].out \in TransientMessages
           /\ trace[k].role # "master" )
         => IF k = Len(trace) THEN pc = "invoke" ELSE trace[k + 1].t = "invoke"

\* C17: isConnectionError answers Transient exactly for connection refused,
\* connection reset by peer, deadline exceeded and a protocol error with code
\* 08001, 08003 or 08006, and Fatal for nil, ErrMasterOnlyOperation,
\* ErrNoAvailableReplicas and every other error; it changes nothing.
C17_ClassifierTable ==
    /\ clsOut <=> \/ clsIn \in {DbErr(m) : m \in TransientMessages}
                  \/ clsIn \in {PgError(c) : c \in ConnectionCodes}
    /\ telemetry = NewTelemetry

\* The errors the passes of the call returned, in order.
PassErrors == SelectSeq(trace, LAMBDA e : e.t = "passEnd")

\* C18: when all MaxRetries+1 attempts fail with errors the classifier takes
\* for transient, the error returned matches ErrMaxRetriesExceeded and wraps
\* the error of the last attempt.
C18_ExhaustionReturnsMaxRetriesExceeded ==
    ( /\ pc = "done"
      /\ EngineCall
      /\ config.MaxRetries >= 0
      /\ Len(PassErrors) = config.MaxRetries + 1
      /\ \A k \in 1..Len(PassErrors) : isConnectionError(PassErrors[k].err) )
    => /\ ErrMaxRetriesExceeded.msg \in ret.is
       /\ PassErrors[Len(PassErrors)].err.msg \in ret.is

\* C19: with MaxRetries = 0 a call through the retry loop runs exactly one
\* fallback pass and never sleeps, whether the pass succeeds, fails with a
\* transient error or fails with a fatal one.
C19_ZeroRetriesIsOnePass ==
    (EngineCall /\ config.MaxRetries = 0)
    => /\ Passes(trace) = 1
       /\ Sleeps(trace) = 0
       /\ pc # "sleep"
       /\ pc = "done" => Len(PassErrors) = 1

\* C19 witness: with MaxRetries = 0 the only pass failed with an error the
\* classifier takes for transient, and the call is over.
C19_Witness ==
    /\ pc = "done"
    /\ EngineCall
    /\ config.MaxRetries = 0
    /\ Len(PassErrors) = 1
    /\ isConnectionError(PassErrors[1].err)
    /\ ret # NilErr

\* C20: Exec, Query, Begin, BeginTx and Ping on the handle of Master() invoke
\* the primary's Database Client exactly once, invoke no replica, do not sleep
\* and are not repeated, whatever the primary answers and whatever MaxRetries
\* is; the caller gets the primary's answer.
C20_MasterHandleIsDirect ==
    (call.entry = "Master" /\ call.op \in MasterOps \ {"QueryRow"})
    => /\ pc = "done"
       /\ Len(trace) = 1
       /\ trace[1].t = "invoke"
       /\ trace[1].role = "master"
       /\ trace[1].db
       /\ ret = trace[1].err
       /\ (trace[1].out = "ok") <=> (ret = NilErr)
       /\ telemetry.totalRetries = telAtCall.totalRetries

\* C20 witness: with two retries allowed, Exec on the Master() handle was
\* answered with "connection refused" and returned after that one invocation.
C20_Witness ==
    /\ pc = "done"
    /\ call = [entry |-> "Master", op |-> "Exec"]
    /\ config.MaxRetries = 2
    /\ driver.asyncSlave # "nil"
    /\ trace[1].out = "connection refused"
    /\ ret = Errorf_w(MasterQueryPrefix, DbErr("connection refused"))

----------------------------------------------------------------------------
\* C21: Driver.Begin / Driver.BeginTx invoke begin on the primary once and on
\* no replica, and return the primary's failure, transient or not, without a
\* further attempt; Begin / BeginTx on a Slave() or SyncSlave() handle start
\* no transaction on any endpoint.
C21_BeginOnlyOnPrimaryOnce ==
    /\ call.entry = "Driver"
         => /\ pc = "done"
            /\ Len(trace) = 1
            /\ trace[1].t = "invoke"
            /\ trace[1].role = "master"
            /\ trace[1].db
            /\ ret = trace[1].err
            /\ (trace[1].out = "ok") <=> (ret = NilErr)
            /\ telemetry.totalRetries = telAtCall.totalRetries
    /\ (call.entry \in ReplicaHandles /\ call.op \in {"Begin", "BeginTx"})
         => /\ pc = "done"
            /\ Len(trace) = 1
            /\ trace[1].role \in ReplicaRoles
            /\ ~trace[1].db
            /\ ret = ErrMasterOnlyOperation
            /\ result = "none"

\* C21 witness: with two retries allowed and both replicas configured,
\* Driver.BeginTx was answered with "connection refused" by the primary and
\* returned after that one invocation.
C21_Witness ==
    /\ pc = "done"
    /\ call = [entry |-> "Driver", op |-> "BeginTx"]
    /\ config.MaxRetries = 2
    /\ driver.syncSlave # "nil"
    /\ driver.asyncSlave # "nil"
    /\ trace[1].out = "connection refused"
    /\ ret = Errorf_w(MasterBeginPrefix, DbErr("connection refused"))

----------------------------------------------------------------------------
\* C22: Driver.Close calls Close on every configured connection, whatever the
\* earlier ones answered; it returns nil exactly when none of them failed, and
\* otherwise one error whose text carries every failure.
DriverCloseDone == call = [entry |-> "Driver", op |-> "Close"]

C22_DriverCloseClosesAll ==
    DriverCloseDone =>
        /\ \A r \in Roles :
             ClosedBy(trace, r) = IF FieldOf(r) # "nil" THEN 1 ELSE 0
        /\ (ret = NilErr) <=> (\A i \in 1..Len(trace) : trace[i].out = "ok")
        /\ \A i \in 1..Len(trace) :
             trace[i].out # "ok" =>
                 \E j \in 1..(Len(ret.msg) - 1) :
                     /\ ret.msg[j] = ClosePrefix(trace[i].role)
                     /\ ret.msg[j + 1] = trace[i].out

C22_Witness ==
    /\ DriverCloseDone
    /\ Len(trace) = 3
    /\ trace[1].out # "ok"
    /\ trace[2].out = "ok"
    /\ trace[3].out # "ok"
    /\ ret # NilErr

\* C23: over any sequence of Driver.Close and handle Close calls, Close is
\* called at most once on each physical connection, and no operation reaches
\* a connection after a Close on it.
C23_ClosedOnceNeverUsedAfter ==
    /\ \A r \in Roles : closes[r] <= 1
    /\ lateUse = {}

\* C24: SyncSlave() and Slave() never return nil: without the replica asked
\* for they return a connection to the primary (or, for Slave(), to the
\* synchronous replica).
C24_ReplicaGettersNeverNil ==
    (call.op = "get" /\ call.entry \in {"SyncSlave", "Slave"}) =>
        /\ held # NilHandle
        /\ (call.entry = "SyncSlave" /\ driver.syncSlave = "nil") =>
               held.role = "master"
        /\ (call.entry = "Slave" /\ driver.asyncSlave = "nil") =>
               held.role \in {"sync", "master"}

\* The passes and invocations of a call through the retry loop stay within
\* what MaxRetries allows, and a call that is over has a result with a nil
\* error or an error without a result.
WithinRetryBounds ==
    (EngineCall /\ config.MaxRetries >= 0) =>
        /\ Passes(trace) <= config.MaxRetries + 1
        /\ Len(Invocations(trace)) <= 3 * (config.MaxRetries + 1)
        /\ pc = "done" => \/ ret = NilErr /\ result # "none"
                          \/ ret # NilErr /\ result = "none"

\* C25: every call through the retry loop comes to an end with exactly one
\* outcome, a result with a nil error or one error without a result, after at
\* most MaxRetries + 1 passes and at most 3 * (MaxRetries + 1) invocations;
\* none ends without an outcome.
C25_CallEndsWithOneOutcome ==
    /\ WithinRetryBounds
    /\ EngineCall => pc # "panicked"

\* The helper's function was run and returned nil.
FnSucceeded ==
    /\ call.entry \in TxHelpers
    /\ Len(trace) >= 2
    /\ trace[2].t = "fn"
    /\ trace[2].err = NilErr

\* The helper runs the function at most once and only after a begin that
\* succeeded, calls Commit once the function returned nil, and returns nil
\* exactly when that Commit succeeded.
FnOnceThenCommit ==
    call.entry \in TxHelpers =>
        /\ TxEvents("fn") <= 1
        /\ trace[1].t = "begin"
        /\ trace[1].err # NilErr => Len(trace) = 1 /\ pc = "done"
        /\ (FnSucceeded /\ pc \in {"txDefer", "done"}) =>
               /\ TxEvents("commit") = 1
               /\ trace[3].t = "commit"
        /\ pc = "done" =>
               ((ret = NilErr) <=>
                    \E k \in 1..Len(trace) :
                        trace[k].t = "commit" /\ trace[k].err = NilErr)

\* C26: ExecuteInTransaction / ExecuteInTransactionDefault run the function at
\* most once and only after begin succeeded; after a failed begin nothing
\* else is called; when the function returns nil the transaction is committed
\* and never rolled back, and nil is returned exactly when the commit
\* succeeded.
C26_FnOnceCommitNeverRollback ==
    /\ FnOnceThenCommit
    /\ FnSucceeded => TxEvents("rollback") = 0

\* C27: with fallback enabled, a pass skips every endpoint of the chain that
\* has no connection: the operation is never invoked on it.
C27_AbsentEndpointSkipped ==
    (EngineCall /\ driver.replicaFallback) =>
        \A k \in 1..Len(trace) :
            trace[k].t = "invoke" => FieldOf(trace[k].role) # "nil"

\* An endpoint of the chain is available when the driver has a connection for
\* its role.
NoEndpointAvailable == \A r \in Roles : FieldOf(r) = "nil"

\* C28: with fallback disabled and no async replica a pass returns
\* ErrNoAvailableReplicas without invoking any endpoint; with fallback enabled
\* a pass returns it exactly when no endpoint of the chain is available; and
\* the retry loop hands it back at once, without sleep or retry.
C28_NoAvailableReplicasIsFatal ==
    EngineCall =>
        /\ \A k \in 1..Len(trace) :
             trace[k].t = "passEnd" =>
                 /\ (trace[k].err = ErrNoAvailableReplicas) <=>
                        IF driver.replicaFallback THEN NoEndpointAvailable
                        ELSE driver.asyncSlave = "nil"
                 /\ trace[k].err = ErrNoAvailableReplicas =>
                        /\ trace[k - 1].t = "pass"
                        /\ k = Len(trace)
                        /\ pc = "done"
                        /\ ret = ErrNoAvailableReplicas
                        /\ Passes(trace) = 1
                        /\ Sleeps(trace) = 0
                        /\ Invocations(trace) = <<>>
                        /\ telemetry.totalRetries = telAtCall.totalRetries
        /\ ( /\ ~driver.replicaFallback
             /\ driver.asyncSlave = "nil"
             /\ config.MaxRetries >= 0
             /\ pc = "done" ) => ret = ErrNoAvailableReplicas

\* C28 witness: two retries allowed, fallback disabled, a sync replica but no
\* async replica, and the call is over with ErrNoAvailableReplicas after one
\* pass.
C28_Witness ==
    /\ pc = "done"
    /\ EngineCall
    /\ config.MaxRetries = 2
    /\ ~driver.replicaFallback
    /\ driver.asyncSlave = "nil"
    /\ driver.syncSlave # "nil"
    /\ ret = ErrNoAvailableReplicas
    /\ Passes(trace) = 1

\* The last call was made on the Tx handle.
OnTxHandle(ops) == call.entry = "txWrapper" /\ call.op \in ops

\* C29: Begin and BeginTx on a Tx handle are rejected with "nested
\* transactions are not supported" whatever the state of the transaction;
\* they start nothing on the Database Client and leave the transaction as it
\* was.
C29_NestedBeginRejected ==
    OnTxHandle({"Begin", "BeginTx"}) =>
        /\ ret = New("nested transactions are not supported")
        /\ \A k \in 1..Len(trace) : ~trace[k].db
        /\ txState = txPrev

\* C29 witness: BeginTx on the handle of an open transaction was rejected.
C29_Witness ==
    /\ OnTxHandle({"BeginTx"})
    /\ txPrev = "open"
    /\ txState = "open"
    /\ ret = ErrNestedTx

\* C30: Close on the handle of an open transaction returns nil and leaves the
\* transaction open; Ping on a Tx handle returns an error without reaching
\* the Database Client and leaves the transaction as it was.
C30_CloseAndPingLeaveTxAlone ==
    /\ (OnTxHandle({"Close"}) /\ txPrev = "open") =>
           /\ ret = NilErr
           /\ txState = "open"
           /\ \A k \in 1..Len(trace) : ~trace[k].db
    /\ OnTxHandle({"Ping"}) =>
           /\ ret # NilErr
           /\ txState = txPrev
           /\ \A k \in 1..Len(trace) : ~trace[k].db

\* C30 witness: Close on the handle of an open transaction returned nil after
\* an earlier call on the handle, and the transaction is still open.
C30_Witness ==
    /\ OnTxHandle({"Close"})
    /\ txPrev = "open"
    /\ txState = "open"
    /\ calls >= 3
    /\ ret = NilErr

----------------------------------------------------------------------------
\* C31: a transaction becomes Committed only from Open by a Commit that
\* succeeded, and RolledBack only from Open by a Rollback that succeeded, and
\* such a call does make it so; Committed and RolledBack are terminal: no call
\* on the handle leaves them, and nothing but a begin makes a transaction Open.
C31_TxMove ==
    /\ (txState' = "committed" /\ txState # "committed") =>
           /\ txState = "open"
           /\ call' = [entry |-> "txWrapper", op |-> "Commit"]
           /\ ret' = NilErr
    /\ (txState' = "rolledback" /\ txState # "rolledback") =>
           /\ txState = "open"
           /\ call' = [entry |-> "txWrapper", op |-> "Rollback"]
           /\ ret' = NilErr
    /\ (txState = "open" /\ call'.entry = "txWrapper" /\ ret' = NilErr) =>
           txState' = CASE call'.op = "Commit" -> "committed"
                        [] call'.op = "Rollback" -> "rolledback"
                        [] OTHER -> "open"
    /\ txState \in {"committed", "rolledback"} => txState' = txState
    /\ (txState' = "open" /\ txState # "open") =>
           txState = "none" /\ call'.entry = "Driver"

----------------------------------------------------------------------------
\* C32: whatever Record* calls run beside it, the map a GetMetrics call
\* returns shows one state of the Telemetry: its counters and its enabled flag
\* are those of the state the call ends in, and average_duration is the
\* accumulated duration of that state divided by its total_queries, 0 without
\* queries.
C32_SnapshotStep ==
    metrics' # metrics =>
        LET m == metrics'[Len(metrics')]
        IN  /\ m.total_queries = telemetry.totalQueries
            /\ m.total_errors = telemetry.totalErrors
            /\ m.total_retries = telemetry.totalRetries
            /\ m.connection_errors = telemetry.connectionErrors
            /\ m.enabled = telemetry.enabled
            /\ m.average_duration =
                   IF m.total_queries = 0 THEN 0
                   ELSE telemetry.queryDuration \div m.total_queries

C32_SnapshotIsOneState == [][C32_SnapshotStep]_vars

\* C32 witness: a GetMetrics map shows two queries of durations 1 and 3 and
\* their average 2, while a Record* call of a goroutine waits for the lock.
C32_Witness ==
    /\ Len(metrics) >= 1
    /\ metrics[1].total_queries = 2
    /\ metrics[1].average_duration = 2
    /\ telemetry.totalQueries = 2
    /\ \E g \in Goroutines : loc[g].at = "lock"

----------------------------------------------------------------------------
\* C33: every pass that invokes an endpoint, the first pass of a call and
\* every pass after a sleep alike, invokes the async replica entry first,
\* whatever that entry answered before; and no step of a call changes the
\* driver's connections, its fallback flag or the configuration.
C33_PassStep ==
    /\ EngineCall' =>
           \A k \in 2..Len(trace') :
               (trace'[k].t = "invoke" /\ trace'[k - 1].t = "pass") =>
                   trace'[k].role = "async"
    /\ driver' = driver
    /\ config' = config

C33_ChainStartsAfresh == [][C33_PassStep]_vars

\* C33 witness: the second pass of the second call invoked the async replica
\* first again, after it had failed in the first pass.
C33_Witness ==
    /\ EngineCall
    /\ calls = 2
    /\ Passes(trace) = 2
    /\ Len(trace) >= 5
    /\ trace[2].t = "invoke"
    /\ trace[2].role = "async"
    /\ trace[2].err # NilErr
    /\ \E k \in 4..Len(trace) :
         /\ trace[k].t = "invoke"
         /\ trace[k - 1].t = "pass"
         /\ trace[k].role = "async"

----------------------------------------------------------------------------
\* C34: the closure of ExecuteReadQueryWithFallback never runs Query on the
\* primary: handed the primary entry it returns ErrMasterOnlyOperation without
\* a call to the Database Client, the pass returns that error, and the loop
\* returns it without counting a retry or sleeping.
C34_ReadRefusesPrimary ==
    (opIn.entry = "ExecuteReadQueryWithRetry"
       /\ Connections[opIn.idx].role = "master") =>
        /\ opOut.r.err = ErrMasterOnlyOperation
        /\ ~opOut.r.db
        /\ opOut.pass.kind = "return"
        /\ opOut.pass.err = ErrMasterOnlyOperation
        /\ opOut.loop.kind = "return"
        /\ opOut.loop.err = ErrMasterOnlyOperation
        /\ opOut.loop.tel.totalRetries = telemetry.totalRetries

\* C34 witness: the read closure was handed the primary entry during the
\* first of three attempts, with fallback enabled.
C34_Witness ==
    /\ opIn.entry = "ExecuteReadQueryWithRetry"
    /\ opIn.idx = 3
    /\ opIn.attempt = 0
    /\ config.MaxRetries = 2
    /\ driver.replicaFallback
    /\ opOut.loop.err = ErrMasterOnlyOperation

----------------------------------------------------------------------------
\* The Query invocations of the call that the Database Client answered with an
\* error.
FailedQueries ==
    Len(SelectSeq(trace, LAMBDA e : /\ e.t = "invoke"
                                    /\ e.op = "Query"
                                    /\ e.db
                                    /\ e.err # NilErr))

\* C35: with telemetry enabled, every failed Query on an endpoint adds 2 to
\* totalErrors when it is invoked by a fallback pass with fallback enabled,
\* and 1 when fallback is disabled or the Query is made on the Master() handle.
C35_ErrorsCountedTwiceUnderFallback ==
    ( /\ driver.telemetry # "nil"
      /\ telemetry.enabled
      /\ call.op = "Query"
      /\ EngineCall \/ call.entry = "Master" )
    => telemetry.totalErrors - telAtCall.totalErrors
         = FailedQueries * (IF EngineCall /\ driver.replicaFallback THEN 2 ELSE 1)

\* C35 witness: with telemetry and fallback enabled, one Query was answered
\* with an error by the async replica and totalErrors grew by 2.
C35_Witness ==
    /\ driver.telemetry # "nil"
    /\ EngineCall
    /\ call.op = "Query"
    /\ driver.replicaFallback
    /\ FailedQueries = 1
    /\ trace[2].role = "async"
    /\ trace[2].err # NilErr
    /\ telemetry.totalErrors = telAtCall.totalErrors + 2

----------------------------------------------------------------------------
\* The counters of a Telemetry.
Counters(t) ==
    <<t.totalQueries, t.totalErrors, t.totalRetries, t.connectionErrors,
      t.queryDuration>>

\* C36: a counter of the Telemetry changes only in a state where enabled is
\* true: between the return of Disable and the next Enable no counter changes,
\* not even by a Record* call that began before Disable.
C36_CounterStep == Counters(telemetry') # Counters(telemetry) => telemetry.enabled

C36_NoCountingWhileDisabled == [][C36_CounterStep]_vars

\* C37: with Telemetry enabled throughout, the Record* calls that goroutines
\* make side by side are all counted: each counter equals the calls of its
\* method that have returned, whatever the interleaving.
C37_NoIncrementLost ==
    \A method \in DOMAIN RecordMethods :
        telemetry[RecordMethods[method]] + InFlight(method) = recCalls[method]

\* C37 witness: after one RecordError has returned, the two goroutines are
\* both inside RecordError, one between the read and the write of the counter
\* and the other waiting for the lock.
C37_Witness ==
    /\ recCalls["RecordError"] = 3
    /\ telemetry.totalErrors = 1
    /\ \E g, h \in Goroutines :
         /\ loc[g] = [at |-> "write", method |-> "RecordError", val |-> 1, d |-> 1]
         /\ loc[h].at = "lock"
         /\ loc[h].method = "RecordError"

----------------------------------------------------------------------------
\* A call through ExecuteQueryWithRetry is over.
QueryWithRetryOver ==
    /\ EngineCall
    /\ call.entry # "ExecuteReadQueryWithRetry"
    /\ pc \in {"done", "panicked"}

\* C38 as stated: with a negative MaxRetries, ExecuteQueryWithRetry invokes the
\* operation on no endpoint and returns the bare ErrMaxRetriesExceeded; with
\* MaxRetries >= 0 it invokes the operation at least once and never returns
\* the bare ErrMaxRetriesExceeded.
C38_AsStated ==
    QueryWithRetryOver =>
        IF config.MaxRetries < 0
        THEN Invocations(trace) = <<>> /\ ret = ErrMaxRetriesExceeded
        ELSE Invocations(trace) # <<>> /\ ret # ErrMaxRetriesExceeded

\* C38 amended: with a negative MaxRetries, ExecuteQueryWithRetry starts no
\* pass, invokes the operation on no endpoint and returns the bare
\* ErrMaxRetriesExceeded; with MaxRetries >= 0 it starts at least one pass and
\* never returns the bare ErrMaxRetriesExceeded, and the operation is invoked
\* at least once unless fallback is disabled and there is no async replica.
C38_NegativeMaxRetries ==
    QueryWithRetryOver =>
        IF config.MaxRetries < 0
        THEN /\ trace = <<>>
             /\ ret = ErrMaxRetriesExceeded
        ELSE /\ Passes(trace) >= 1
             /\ ret # ErrMaxRetriesExceeded
             /\ (Invocations(trace) = <<>>) <=>
                    (~driver.replicaFallback /\ driver.asyncSlave = "nil")

\* C38 witness: with MaxRetries = -1 a Query through the handle of Slave() is
\* over with the bare ErrMaxRetriesExceeded and nothing was invoked.
C38_Witness ==
    /\ QueryWithRetryOver
    /\ call = [entry |-> "Slave", op |-> "Query"]
    /\ config.MaxRetries = -1
    /\ trace = <<>>
    /\ ret = ErrMaxRetriesExceeded

----------------------------------------------------------------------------
\* C39: with QueryTimeout > 0, the context with the deadline that an endpoint
\* derives for Query or QueryRow is still live, not cancelled, when the caller
\* makes the first Next or Scan on what the method returned.
C39_DeadlineContextOutlivesCall ==
    (config.QueryTimeout > 0 /\ rows.at = "read") => rows.readCtx = "derived"

\* C40: when NewDriver returns an error no connection it opened earlier in the
\* same call is still open; when it returns a Driver the primary connection is
\* open and each replica connection exists exactly when its connection string
\* is non-empty.
C40_NoConnectionLeftOnError ==
    /\ nd.ret = "error" => nd.open = {}
    /\ nd.ret = "driver" =>
          /\ "master" \in nd.open
          /\ \A role \in {"sync", "async"} :
                role \in nd.open <=> ConnString(config, role) # ""

============================================================================
